---- MODULE Spec2Model ----
(*
  Robuttal debate engine: scheduler runner (run_single_debate), orchestrator,
  judge service, Elo service, watchdog and the admin retry-judging endpoint,
  over one topic and the debate created for it.

  Database model.  `db` is the committed (durable) state.  Every task owns an
  AsyncSession (`sess[t]`): attribute values of the ORM objects it has loaded
  (identity map; database.py sets expire_on_commit=False, so a commit does
  not expire them), the set of flushed-but-uncommitted changes, and the rows
  it has written in the open transaction (row locks, READ COMMITTED).
  A query issued with populate_existing (judge.py _load_debate) or a
  db.refresh overwrites the cached values with the transaction's view; a
  plain select (orchestrator.py _load_debate, elo.py) fills only attributes
  that are not loaded yet.  TranscriptEntry.__table__.delete() is a Core
  statement and leaves the cached collection untouched.
*)
EXTENDS Integers, Sequences, FiniteSets, TLC

\* ------------------------------------------------------------------ bounds
NModels == 6            \* rows of the models table
MaxFaults == 2          \* provider failures injected into a run of run_single_debate
MaxOverlapFaults == 1   \* provider failures injected when the tasks overlap
MaxOtherDebates == 1
MaxLaterRuns == 2
MaxExcluded == 2
NTopics == 3            \* rows of the topics table
MaxCalls == 4           \* model calls of the judge service that are followed

\* ------------------------------------------------------- program constants
MAX_CONTENT_FILTER_RESTARTS == 3
MAX_WATCHDOG_RECOVERY_ATTEMPTS == 2
max_attempts == 50
MIN_USER_VOTES == 5
MAX_EMPTY_RESPONSE_RETRIES == 2

\* providers/*.py: the retry loop of every adapter
MAX_RETRIES == 3
RETRY_DELAY_SECONDS == 1
RETRY_MULTIPLIER == 2

Null == -1
Models == 1..NModels
Tasks == {"R", "W", "M"}

VARIABLES
  db,      \* committed rows: debate, entries, models, topic
  sess,    \* per task: the AsyncSession (identity map + open transaction)
  run,     \* run_single_debate locals, orchestrator and judge-service fields
  wd,      \* watchdog sweep locals
  mr,      \* retry_judging locals
  faults,  \* provider failures the environment may still inject
  hist     \* history: what happened to the debate (read by the properties only)

vars == <<db, sess, run, wd, mr, faults, hist>>

\* ----------------------------------------------------------------- helpers
Max(S) == CHOOSE x \in S : \A y \in S : y <= x
Min(S) == CHOOSE x \in S : \A y \in S : x <= y
Range(f) == {f[i] : i \in DOMAIN f}
Merge(r, upd) == [f \in DOMAIN r |-> IF f \in DOMAIN upd THEN upd[f] ELSE r[f]]
SeqMinus(q, S) == SelectSeq(q, LAMBDA e : e \notin S)
\* a local variable of the code: v is computed once and named in F
Local(v, F(_)) == CHOOSE r \in {F(x) : x \in {v}} : TRUE
\* the same for a step: v is computed once and named in the action A
LocalIn(v, A(_)) == \E x \in {v} : A(x)
RECURSIVE SumOver(_, _)
SumOver(f, S) ==
  IF S = {} THEN 0
  ELSE Local(CHOOSE y \in S : TRUE, LAMBDA x : f[x] + SumOver(f, S \ {x}))

\* DebatePhase / turn order of DebateOrchestrator.run_debate
DebatePhases == <<"opening", "rebuttal", "cross_examination", "closing">>
Turns ==
  << [phase |-> "opening", pos |-> "pro"], [phase |-> "opening", pos |-> "con"],
     [phase |-> "rebuttal", pos |-> "con"], [phase |-> "rebuttal", pos |-> "pro"],
     [phase |-> "cross_examination", pos |-> "pro"],
     [phase |-> "cross_examination", pos |-> "con"],
     [phase |-> "cross_examination", pos |-> "con"],
     [phase |-> "cross_examination", pos |-> "pro"],
     [phase |-> "closing", pos |-> "pro"], [phase |-> "closing", pos |-> "con"] >>
ExpectedEntries(p) == IF p = "cross_examination" THEN 4 ELSE 2
FirstTurn(p) == CHOOSE i \in DOMAIN Turns :
                  Turns[i].phase = p /\ \A j \in DOMAIN Turns : Turns[j].phase = p => i <= j
LastTurn(p) == FirstTurn(p) + ExpectedEntries(p) - 1

\* ------------------------------------------------------------- row shapes
BlankDebate ==
  [ exists |-> FALSE, status |-> "none", pro |-> Null, con |-> Null, judge |-> Null,
    auditor |-> Null, winner |-> Null, pro_score |-> Null, con_score |-> Null,
    judge_score |-> Null, pro_elo_before |-> Null, pro_elo_after |-> Null,
    con_elo_before |-> Null, con_elo_after |-> Null, started |-> "none",
    excuses |-> <<>>, blinded |-> FALSE,
    pro_cat |-> <<>>, con_cat |-> <<>>,
    id |-> Null ]   \* the four category scores of each side, <<>> = NULL
DFields == DOMAIN BlankDebate
MFields == {"active", "elo", "won", "lost", "excused", "judged", "avg"}
NoRel == [pro |-> Null, con |-> Null, judge |-> Null, auditor |-> Null]

InitModel(is_active) ==
  [ active |-> is_active, elo |-> 1500, won |-> 0, lost |-> 0,
    excused |-> 0, judged |-> 0, avg |-> Null ]

BlankSession ==
  [ obj |-> BlankDebate,       \* Debate object attributes (column values)
    loaded |-> FALSE,          \* Debate object is in the identity map
    dirty |-> {},              \* Debate columns changed in the open transaction
    rel |-> NoRel,             \* loaded many-to-one relationships (Null: not loaded)
    coll |-> <<>>,             \* Debate.transcript_entries as loaded
    collLoaded |-> FALSE,
    ins |-> <<>>,              \* entries inserted in the open transaction
    del |-> {},                \* committed entries deleted in the open transaction
    mc |-> [m \in Models |-> InitModel(FALSE)],   \* Model objects as loaded
    mloaded |-> {},
    mdirty |-> {},             \* <<model, column>> changed in the open transaction
    topic |-> "none",          \* Topic.status set in the open transaction
    wrote |-> {} ]             \* rows written by the step being taken


\* ---------------------------------------------------------------- rows/locks
DebateRow == NModels + 2
TopicRow == NModels + 1

\* rows this session has written and not yet committed (row locks it holds)
Locks(s) ==
  (IF s.dirty # {} THEN {DebateRow} ELSE {}) \cup {p[1] : p \in s.mdirty}
    \cup (IF s.topic # "none" THEN {TopicRow} ELSE {})

\* what a SELECT issued inside this session's transaction returns
ViewDebate(s, d) == [f \in DFields |-> IF f \in s.dirty THEN s.obj[f] ELSE d.debate[f]]
ViewModel(s, d, m) ==
  [f \in MFields |-> IF <<m, f>> \in s.mdirty THEN s.mc[m][f] ELSE d.models[m][f]]
ViewEntries(s, d) == SeqMinus(d.entries, s.del) \o s.ins
ViewTopic(s, d) == IF s.topic # "none" THEN s.topic ELSE d.topic
\* select(Model).where(Model.is_active == True)
ActiveModels(s, d) == {m \in Models : ViewModel(s, d, m).active}

\* attribute access on a Model object: the identity map's copy when loaded
ReadModel(s, d, m) == IF m \in s.mloaded THEN s.mc[m] ELSE ViewModel(s, d, m)

LoadModels(s, d, ms, overwrite) ==
  [s EXCEPT !.mc = [m \in Models |->
                      IF m \in ms /\ (overwrite \/ m \notin s.mloaded)
                        THEN ViewModel(s, d, m) ELSE s.mc[m]],
            !.mloaded = @ \cup (ms \cap Models)]

\* attribute assignment + flush on the Debate object
SetDebate(s, upd) ==
  Local({f \in DOMAIN upd : s.obj[f] # upd[f]}, LAMBDA changed :
  [s EXCEPT !.obj = Merge(s.obj, upd),
            !.dirty = @ \cup changed,
            !.wrote = IF changed = {} THEN @ ELSE @ \cup {DebateRow}])

\* attribute assignment + flush on a Model object
SetModel(s, d, m, upd) ==
  Local(LoadModels(s, d, {m}, FALSE), LAMBDA s1 :
  Local({f \in DOMAIN upd : s1.mc[m][f] # upd[f]}, LAMBDA changed :
  [s1 EXCEPT !.mc[m] = Merge(s1.mc[m], upd),
             !.mdirty = @ \cup {<<m, f>> : f \in changed},
             !.wrote = IF changed = {} THEN @ ELSE @ \cup {m}]))

SetTopic(s, d, st) ==
  IF ViewTopic(s, d) = st THEN s
  ELSE [s EXCEPT !.topic = st, !.wrote = @ \cup {TopicRow}]

InsertEntry(s, e) == [s EXCEPT !.ins = Append(@, e)]

\* TranscriptEntry.__table__.delete().where(debate_id == ...): Core DELETE
DeleteEntries(s, d) == [s EXCEPT !.del = @ \cup Range(d.entries), !.ins = <<>>]

\* session.commit(): pending changes become durable; nothing is expired
CommitDb(s, d) ==
  [ debate |-> ViewDebate(s, d),
    models |-> [m \in Models |-> ViewModel(s, d, m)],
    entries |-> ViewEntries(s, d),
    topic |-> ViewTopic(s, d) ]
CommitSess(s) ==
  [s EXCEPT !.dirty = {}, !.mdirty = {}, !.ins = <<>>, !.del = {}, !.topic = "none"]

\* session.rollback() / close without commit: pending changes are dropped and
\* every object is expired (the next access reloads it)
Rollback(s) == [BlankSession EXCEPT !.wrote = s.wrote]

\* select(Debate).options(selectinload(...)).execution_options(populate_existing=True)
LoadFresh(s, d) ==
  Local(ViewDebate(s, d), LAMBDA o :
  Local([s EXCEPT !.obj = o, !.loaded = TRUE,
                      !.rel = [pro |-> o.pro, con |-> o.con, judge |-> o.judge,
                               auditor |-> o.auditor],
                      !.coll = ViewEntries(s, d), !.collLoaded = TRUE], LAMBDA s1 :
  LoadModels(s1, d, {o.pro, o.con, o.judge, o.auditor}, TRUE)))

\* select(Debate).options(selectinload(...)) without populate_existing:
\* only attributes that are not loaded yet are filled
LoadPlain(s, d) ==
  Local(IF s.loaded THEN s.obj ELSE ViewDebate(s, d), LAMBDA o :
  Local([pro |-> o.pro, con |-> o.con, judge |-> o.judge, auditor |-> o.auditor], LAMBDA fk :
  Local([k \in DOMAIN NoRel |-> IF s.rel[k] = Null THEN fk[k] ELSE s.rel[k]], LAMBDA r :
  Local([s EXCEPT !.obj = o, !.loaded = TRUE, !.rel = r,
                      !.coll = IF s.collLoaded THEN @ ELSE ViewEntries(s, d),
                      !.collLoaded = TRUE], LAMBDA s1 :
  LoadModels(s1, d, Range(r), FALSE)))))

\* db.refresh(debate): column attributes reloaded
RefreshDebate(s, d) == [s EXCEPT !.obj = ViewDebate(s, d), !.loaded = TRUE]


\* ------------------------------------------------------------------- elo.py
\* calculate_new_elos with k = 32: the winner's gain round(32 * (1 - E_w)) as a
\* step function of (loser_elo - winner_elo), tabulated from the float formula
\* for differences in -400..400; the loser's change is the negated gain.
EloSteps ==
  << -364, -314, -273, -237, -205, -176, -149, -124, -100, -77, -54, -32, -10,
     11, 33, 55, 78, 101, 125, 150, 177, 206, 238, 274, 315, 365 >>
EloGain(diff) == 3 + Cardinality({i \in DOMAIN EloSteps : EloSteps[i] <= diff})
\* the loser's change taken as round(32 * E_w) instead of round(32 * (1 - E_w))
new_elos_loser_by_winner_expectation(winner_elo, loser_elo) ==
  << winner_elo + EloGain(loser_elo - winner_elo),
     loser_elo - (32 - EloGain(loser_elo - winner_elo)) >>
calculate_new_elos(winner_elo, loser_elo) ==
  << winner_elo + EloGain(loser_elo - winner_elo),
     loser_elo - EloGain(loser_elo - winner_elo) >>

\* update_elos_for_debate: result [s, err]
update_elos_for_debate(s, d) ==
  Local(LoadPlain(s, d), LAMBDA s1 :
  Local(s1.obj, LAMBDA o :
  IF ~o.exists \/ o.status # "completed" \/ o.winner = Null
    THEN [s |-> s1, err |-> "ValueError"]
  ELSE
    Local(o.winner = o.pro, LAMBDA proWon :
    Local(IF proWon THEN s1.rel.pro ELSE s1.rel.con, LAMBDA winner :
    Local(IF proWon THEN s1.rel.con ELSE s1.rel.pro, LAMBDA loser :
    Local(ReadModel(s1, d, winner), LAMBDA wm :
    Local(ReadModel(s1, d, loser), LAMBDA lm :
    Local(calculate_new_elos(wm.elo, lm.elo), LAMBDA new :
    Local(SetModel(s1, d, winner, [elo |-> new[1], won |-> wm.won + 1]), LAMBDA s2 :
    Local(ReadModel(s2, d, loser), LAMBDA lm2 :
    Local(SetModel(s2, d, loser, [elo |-> new[2], lost |-> lm2.lost + 1]), LAMBDA s3 :
    Local(IF proWon
                  THEN [pro_elo_before |-> wm.elo, pro_elo_after |-> new[1],
                        con_elo_before |-> lm.elo, con_elo_after |-> new[2]]
                  ELSE [pro_elo_before |-> lm.elo, pro_elo_after |-> new[2],
                        con_elo_before |-> wm.elo, con_elo_after |-> new[1]], LAMBDA snap :
    [s |-> SetDebate(s3, snap), err |-> "none"]))))))))))))

\* the replacement query without its ORDER BY: any active model outside the
\* excluded set
find_replacement_model_unordered(s, d, exclude_ids) ==
  Local({m \in ActiveModels(s, d) : m \notin exclude_ids}, LAMBDA elig :
     IF elig = {} THEN {Null} ELSE elig)

\* ----------------------------------------------------- replacement queries
\* select(Model).where(is_active, id.not_in(exclude)).order_by(elo desc).limit(1)
\* Result: the set of rows the query may return ({Null} when it returns none).
find_replacement_model(s, d, exclude_ids) ==
  Local({m \in ActiveModels(s, d) : m \notin exclude_ids}, LAMBDA elig :
  Local({m \in elig : \A n \in elig : ViewModel(s, d, n).elo <= ViewModel(s, d, m).elo}, LAMBDA best :
     IF best = {} THEN {Null} ELSE best))

NewExcuse(m, role, by, attempt, repl) ==
  [model |-> m, role |-> role, by |-> by, attempt |-> attempt, repl |-> repl]

\* max((e.sequence_order for e in debate.transcript_entries), default=0) + 1
NextSequence(coll) == IF coll = <<>> THEN 1 ELSE Max({e.seq : e \in Range(coll)}) + 1

NewEntry(phase, pos, spk, seq, note, by) ==
  [phase |-> phase, pos |-> pos, spk |-> spk, seq |-> seq, note |-> note, by |-> by]

\* ------------------------------------------------------------ judge.py
JudgeOutcomes == {"pro", "con", "filter", "timeout", "bad"}
AuditOutcomes == {"ok", "filter", "timeout", "bad"}
IsFault(o) == o \in {"filter", "timeout", "bad", "fail"}
NewJudgeService == [excused |-> {}, excuses |-> <<>>]
\* the judge's answer as _extract_json returns it: the detailed format carries
\* four category scores per side (logical_consistency, evidence,
\* persuasiveness, engagement), the old format two totals; the winner may be
\* missing or neither "pro" nor "con"
Verdict(w) ==
  [ format |-> "detailed", winner |-> w,
    pro |-> IF w = "pro" THEN <<20, 20, 20, 20>> ELSE <<15, 15, 15, 15>>,
    con |-> IF w = "pro" THEN <<15, 15, 15, 15>> ELSE <<20, 20, 20, 20>> ]

\* JudgeService._parse_judgment
parse_judgment(data) ==
  IF data.format = "none" THEN [err |-> TRUE]
  ELSE
    Local(IF data.format = "detailed"
            THEN data.pro[1] + data.pro[2] + data.pro[3] + data.pro[4] ELSE data.pro, LAMBDA pro_score :
    Local(IF data.format = "detailed"
            THEN data.con[1] + data.con[2] + data.con[3] + data.con[4] ELSE data.con, LAMBDA con_score :
    Local(IF data.winner = "missing"
            THEN (IF pro_score > con_score THEN "pro" ELSE "con") ELSE data.winner, LAMBDA winner :
    IF pro_score \notin 0 .. 100 \/ con_score \notin 0 .. 100 \/ winner \notin {"pro", "con"}
      THEN [err |-> TRUE]
      ELSE [err |-> FALSE, pro_score |-> pro_score, con_score |-> con_score, winner |-> winner,
            pro_scores |-> IF data.format = "detailed" THEN data.pro ELSE <<>>,
            con_scores |-> IF data.format = "detailed" THEN data.con ELSE <<>>])))

\* JudgeService._record_content_filter_excuse
JS_record_excuse(s, d, js, m, role, repl) ==
  [ s |-> SetModel(s, d, m, [excused |-> ReadModel(s, d, m).excused + 1]),
    js |-> [excused |-> js.excused \cup {m},
            excuses |-> Append(js.excuses, NewExcuse(m, role, "judge_service", 0, repl))] ]

\* JudgeService._add_substitution_note
JS_add_substitution_note(s, d, repl, role, phase, by) ==
  Local(NewEntry(phase, role, repl, NextSequence(s.coll), TRUE, by), LAMBDA e :
  [InsertEntry(s, e) EXCEPT !.coll = Append(@, e)])

\* judge_debate up to the first model call: result [s, cur, excl, res]
judge_debate_begin(s, d, js) ==
  Local(LoadFresh(s, d), LAMBDA s1 :
  [ s |-> s1, cur |-> s1.rel.judge,
    excl |-> {s1.obj.pro, s1.obj.con, s1.obj.auditor} \cup js.excused,
    res |-> IF s1.obj.exists /\ s1.obj.status = "judging" THEN "call" ELSE "ValueError" ])

\* judge_debate from the parsing of the answer on (judge.py 401-452)
judge_debate_parsed(s, d, js, cur, excl, data, by) ==
  Local(parse_judgment(data), LAMBDA judgment :
  IF judgment.err THEN [s |-> s, js |-> js, cur |-> cur, excl |-> excl, res |-> "ValueError"]
  ELSE
    Local(NewEntry("judgment", "judge", cur, NextSequence(s.coll), FALSE, by), LAMBDA e :
    Local(InsertEntry(s, e), LAMBDA s1 :
    Local(SetDebate(s1, [pro_score |-> judgment.pro_score, con_score |-> judgment.con_score]), LAMBDA s2 :
    Local(IF judgment.pro_scores # <<>> THEN SetDebate(s2, [pro_cat |-> judgment.pro_scores])
                                        ELSE s2, LAMBDA s3 :
    Local(IF judgment.con_scores # <<>> THEN SetDebate(s3, [con_cat |-> judgment.con_scores])
                                        ELSE s3, LAMBDA s4 :
    Local(SetDebate(s4, [winner |-> IF judgment.winner = "pro" THEN s.obj.pro ELSE s.obj.con]), LAMBDA s5 :
    [s |-> s5, js |-> js, cur |-> cur, excl |-> excl, res |-> "ok"])))))))

\* judge_debate from the model's reply on: result [s, js, cur, excl, res]
judge_debate_reply(s, d, js, cur, excl, out, repl, by) ==
  IF out = "filter" THEN
    Local(JS_record_excuse(s, d, js, cur, "judge", repl), LAMBDA rec :
    IF repl = Null
      THEN [s |-> rec.s, js |-> rec.js, cur |-> cur, excl |-> excl \cup {cur},
            res |-> "RuntimeError_judge"]
    ELSE
      Local(LoadModels([SetDebate(rec.s, [judge |-> repl]) EXCEPT !.rel.judge = repl],
                           d, {repl}, FALSE), LAMBDA s1 :
      Local(JS_add_substitution_note(s1, d, repl, "judge", "judgment", by), LAMBDA s2 :
      [s |-> s2, js |-> rec.js, cur |-> repl, excl |-> excl \cup {cur, repl}, res |-> "call"])))
  ELSE IF out = "timeout" THEN
    [s |-> s, js |-> js, cur |-> cur, excl |-> excl, res |-> "TimeoutError"]
  ELSE IF out = "bad" THEN
    [s |-> s, js |-> js, cur |-> cur, excl |-> excl, res |-> "ValueError"]
  ELSE judge_debate_parsed(s, d, js, cur, excl, Verdict(out), by)

\* audit_judge up to the first model call
audit_judge_begin(s, d, js) ==
  Local(LoadFresh(s, d), LAMBDA s1 :
  [ s |-> s1, cur |-> s1.rel.auditor,
    excl |-> {s1.obj.judge, s1.obj.pro, s1.obj.con} \cup js.excused,
    res |-> IF s1.obj.exists /\ s1.obj.pro_score # Null /\ s1.obj.con_score # Null
              THEN "call" ELSE "ValueError" ])

\* JudgeService._update_judge_avg_score with new_score = 8.0
JS_update_judge_avg_score(s, d, judge) ==
  Local(ReadModel(s, d, judge), LAMBDA jm :
  SetModel(s, d, judge, [judged |-> jm.judged + 1,
                         avg |-> IF jm.avg = Null THEN 8
                                 ELSE (jm.avg * jm.judged + 8) \div (jm.judged + 1)]))

\* audit_judge from the model's reply on
audit_judge_reply(s, d, js, cur, excl, out, repl, by) ==
  IF out = "filter" THEN
    Local(JS_record_excuse(s, d, js, cur, "auditor", repl), LAMBDA rec :
    IF repl = Null
      THEN [s |-> rec.s, js |-> rec.js, cur |-> cur, excl |-> excl \cup {cur},
            res |-> "RuntimeError_auditor"]
    ELSE
      Local(LoadModels([SetDebate(rec.s, [auditor |-> repl]) EXCEPT !.rel.auditor = repl],
                           d, {repl}, FALSE), LAMBDA s1 :
      Local(JS_add_substitution_note(s1, d, repl, "auditor", "audit", by), LAMBDA s2 :
      [s |-> s2, js |-> rec.js, cur |-> repl, excl |-> excl \cup {cur, repl}, res |-> "call"])))
  ELSE IF out = "timeout" THEN
    [s |-> s, js |-> js, cur |-> cur, excl |-> excl, res |-> "TimeoutError"]
  ELSE IF out = "bad" THEN
    [s |-> s, js |-> js, cur |-> cur, excl |-> excl, res |-> "ValueError"]
  ELSE
    Local(NewEntry("audit", "auditor", cur, NextSequence(s.coll), FALSE, by), LAMBDA e :
    Local(InsertEntry(s, e), LAMBDA s1 :
    Local(SetDebate(s1, [judge_score |-> 8]), LAMBDA s2 :
    Local(JS_update_judge_avg_score(s2, d, s2.rel.judge), LAMBDA s3 :
    Local(SetDebate(s3, [status |-> "completed"]), LAMBDA s4 :
    [s |-> s4, js |-> js, cur |-> cur, excl |-> excl, res |-> "ok"])))))


\* ------------------------------------------------- scheduler.py: selectors
\* random.shuffle: every order of the list
RECURSIVE Shuffles(_)
Shuffles(S) ==
  IF S = {} THEN {<<>>}
  ELSE UNION {{<<x>> \o p : p \in Shuffles(S \ {x})} : x \in S}

\* The rows of the models table are alike before the first debate (column
\* defaults) and their ids are arbitrary: the rows are numbered in the order
\* in which the first random.shuffle of the run arranges them.
RECURSIVE Numbering(_)
Numbering(S) == IF S = {} THEN <<>> ELSE <<Min(S)>> \o Numbering(S \ {Min(S)})

\* a selector whose auditor is always the Pro debater
select_reusing_debater(s, d, exclude_model_ids, shuffles) ==
  {[pro |-> p[1], con |-> p[2], judge |-> p[3], auditor |-> p[1]] :
     p \in {x \in shuffles : Len(x) >= 3}}

\* select_debate_models: the set of quartets it may return ({} when it returns
\* None), given the orders random.shuffle may produce inside the retry loop.
select_debate_models(s, d, exclude_model_ids, shuffles) ==
  Local({m \in ActiveModels(s, d) : m \notin exclude_model_ids}, LAMBDA models :
  IF Cardinality(models) < 3 THEN {}
  ELSE
  Local(Cardinality(models) < 4, LAMBDA allow_auditor_reuse :
  Local(ViewDebate(s, d), LAMBDA v :
  Local(IF v.exists THEN {{v.pro, v.con}} ELSE {}, LAMBDA recent_matchups :
  LET key(m) == Local(ReadModel(s, d, m).avg, LAMBDA a : IF a = Null THEN -1 ELSE a) IN
  LET candidates(p) ==
        IF allow_auditor_reuse THEN SelectSeq(p, LAMBDA m : m # p[3])
        ELSE SelectSeq(p, LAMBDA m : m \notin {p[1], p[2], p[3]}) IN
  \* list.sort is stable: the first candidate having the greatest key
  LET best(c) == c[Min({i \in DOMAIN c : \A k \in DOMAIN c : key(c[k]) <= key(c[i])})] IN
  Local({[pro |-> p[1], con |-> p[2], judge |-> p[3],
                 auditor |-> best(candidates(p))] :
                  p \in {x \in shuffles : {x[1], x[2]} \notin recent_matchups}}, LAMBDA tried :
  Local(IF \E x \in shuffles : {x[1], x[2]} \in recent_matchups
          THEN {[pro |-> p[1], con |-> p[2], judge |-> p[3],
                 auditor |-> IF Len(p) >= 4 THEN p[4] ELSE p[1]] : p \in Shuffles(models)}
          ELSE {}, LAMBDA fallback :
     tried \cup fallback))))))

Eligible(s, d, exclude_model_ids) ==
  {m \in ActiveModels(s, d) : m \notin exclude_model_ids}

\* select_next_topic over the one seed topic: it is returned iff it is pending
select_next_topic(s, d) == ViewTopic(s, d) = "pending"

\* ----------------------------------------------------------- orchestrator.py
DebaterOutcomes == {"ok", "filter", "fail"}
PhaseOf(i) == Turns[i].phase
PhaseIndex(p) == CHOOSE k \in DOMAIN DebatePhases : DebatePhases[k] = p

\* DebateOrchestrator._phase_incomplete
phase_incomplete(transcript, phase, expected) ==
  Len(SelectSeq(transcript, LAMBDA e : e.phase = phase)) < expected

\* the phases run_debate still has to run, from phase number k on
PhasesToRun(r, k) ==
  {j \in k..Len(DebatePhases) :
     \/ DebatePhases[j] \notin r.ocomp
     \/ phase_incomplete(r.otr, DebatePhases[j], ExpectedEntries(DebatePhases[j]))}

\* _run_turn up to the model call
run_turn_begin(w, i) ==
  Local(Turns[i].pos, LAMBDA pos :
  [w EXCEPT !.r.pc = "turn", !.r.turn = i,
            !.r.cur = w.s.rel[pos],
            !.r.excl = {w.s.obj.pro, w.s.obj.con, w.s.obj.judge, w.s.obj.auditor}
                         \cup w.r.oexc])

\* JudgeService(db); judge_debate(...) up to the model call (scheduler.py 351-367)
RunJudgeBegin(w) ==
  Local([w.r EXCEPT !.excuses = @ \o w.r.oexcuses, !.js = NewJudgeService], LAMBDA r1 :
  Local(CommitDb(w.s, w.d), LAMBDA d1 :
  Local(judge_debate_begin(CommitSess(w.s), d1, r1.js), LAMBDA b :
  [s |-> b.s, d |-> d1,
   r |-> [r1 EXCEPT !.pc = IF b.res = "call" THEN "judge" ELSE "raise",
                    !.cur = b.cur, !.excl = b.excl]])))

\* run_debate from phase number k on: the next turn, or the JUDGING commit
run_debate_from(w, k) ==
  IF PhasesToRun(w.r, k) # {}
    THEN run_turn_begin(w, FirstTurn(DebatePhases[Min(PhasesToRun(w.r, k))]))
    ELSE Local(SetDebate(w.s, [status |-> "judging"]), LAMBDA s1 :
         RunJudgeBegin([w EXCEPT !.s = CommitSess(s1), !.d = CommitDb(s1, w.d)]))

\* DebateOrchestrator(db, id); run_debate() up to the first model call
run_debate(w) ==
  Local(LoadPlain(w.s, w.d), LAMBDA s1 :
  Local(s1.coll, LAMBDA tr :
  Local([SetDebate(s1, [status |-> "in_progress", started |-> "recent"])
               EXCEPT !.dirty = @ \cup {"started"}, !.wrote = @ \cup {DebateRow}], LAMBDA s2 :
  Local([w.r EXCEPT !.otr = tr,
                        !.oseq = IF tr # <<>> THEN Max({e.seq : e \in Range(tr)}) + 1 ELSE 0,
                        !.oexc = {}, !.oexcuses = <<>>,
                        !.ocomp = {e.phase : e \in Range(tr)}], LAMBDA r1 :
  run_debate_from([s |-> CommitSess(s2), d |-> CommitDb(s2, w.d), r |-> r1], 1)))))

\* _run_turn from the reply on, in a variant that records the substitution but
\* leaves the debate's relationship to the old debater in place
run_turn_reply_keeps_debater(w, out, repl) ==
  Local(w.r.turn, LAMBDA i :
  Local(Turns[i].phase, LAMBDA phase :
  Local(Turns[i].pos, LAMBDA pos :
  Local(w.r.cur, LAMBDA cur :
  IF out = "fail" THEN [w EXCEPT !.r.pc = "raise"]
  ELSE IF out = "filter" THEN
    Local(SetModel(w.s, w.d, cur, [excused |-> ReadModel(w.s, w.d, cur).excused + 1]), LAMBDA s1 :
    Local([w.r EXCEPT !.oexc = @ \cup {cur},
                          !.oexcuses = Append(@, NewExcuse(cur, pos, "orchestrator", 0, repl)),
                          !.excl = @ \cup {cur}], LAMBDA r1 :
    IF repl = Null THEN [w EXCEPT !.s = s1, !.r = [r1 EXCEPT !.pc = "raise"]]
    ELSE
      Local(LoadModels(SetDebate(s1, [x \in {pos} |-> repl]), w.d, {repl}, FALSE), LAMBDA s2 :
      Local(NewEntry(phase, pos, repl, r1.oseq, TRUE, "R"), LAMBDA note :
      [w EXCEPT !.s = InsertEntry(s2, note),
                !.r = [r1 EXCEPT !.otr = Append(@, note), !.oseq = @ + 1,
                                 !.excl = @ \cup {repl}, !.cur = repl]]))))
  ELSE
    Local(NewEntry(phase, pos, cur, w.r.oseq, FALSE, "R"), LAMBDA e :
    Local([w EXCEPT !.s = InsertEntry(w.s, e),
                        !.r.otr = Append(@, e), !.r.oseq = @ + 1], LAMBDA w1 :
    IF i < LastTurn(phase) THEN run_turn_begin(w1, i + 1)
    ELSE run_debate_from([w1 EXCEPT !.s = CommitSess(w1.s), !.d = CommitDb(w1.s, w1.d)],
                         PhaseIndex(phase) + 1)))))))

\* _run_turn from the model's reply on
run_turn_reply(w, out, repl) ==
  Local(w.r.turn, LAMBDA i :
  Local(Turns[i].phase, LAMBDA phase :
  Local(Turns[i].pos, LAMBDA pos :
  Local(w.r.cur, LAMBDA cur :
  IF out = "fail" THEN [w EXCEPT !.r.pc = "raise"]
  ELSE IF out = "filter" THEN
    Local(SetModel(w.s, w.d, cur, [excused |-> ReadModel(w.s, w.d, cur).excused + 1]), LAMBDA s1 :
    Local([w.r EXCEPT !.oexc = @ \cup {cur},
                          !.oexcuses = Append(@, NewExcuse(cur, pos, "orchestrator", 0, repl)),
                          !.excl = @ \cup {cur}], LAMBDA r1 :
    IF repl = Null THEN [w EXCEPT !.s = s1, !.r = [r1 EXCEPT !.pc = "raise"]]
    ELSE
      Local(LoadModels([SetDebate(s1, [x \in {pos} |-> repl]) EXCEPT !.rel[pos] = repl],
                           w.d, {repl}, FALSE), LAMBDA s2 :
      Local(NewEntry(phase, pos, repl, r1.oseq, TRUE, "R"), LAMBDA note :
      [w EXCEPT !.s = InsertEntry(s2, note),
                !.r = [r1 EXCEPT !.otr = Append(@, note), !.oseq = @ + 1,
                                 !.excl = @ \cup {repl}, !.cur = repl]]))))
  ELSE
    Local(NewEntry(phase, pos, cur, w.r.oseq, FALSE, "R"), LAMBDA e :
    Local([w EXCEPT !.s = InsertEntry(w.s, e),
                        !.r.otr = Append(@, e), !.r.oseq = @ + 1], LAMBDA w1 :
    IF i < LastTurn(phase) THEN run_turn_begin(w1, i + 1)
    ELSE run_debate_from([w1 EXCEPT !.s = CommitSess(w1.s), !.d = CommitDb(w1.s, w1.d)],
                         PhaseIndex(phase) + 1)))))))


\* ------------------------------------------------ scheduler.py: the runner
InitRun ==
  [ pc |-> "idle", outcome |-> "none", attempt |-> 0,
    excused |-> {},            \* excused_model_ids
    excuses |-> <<>>,          \* content_filter_excuses
    sel |-> NoRel,             \* debater_pro, debater_con, judge, auditor
    otr |-> <<>>,              \* orchestrator.transcript
    oseq |-> 0,                \* orchestrator.sequence_order
    ocomp |-> {},              \* completed_phases
    oexc |-> {},               \* orchestrator._excused_model_ids
    oexcuses |-> <<>>,         \* orchestrator._content_filter_excuses
    turn |-> 0,
    tries |-> 0,               \* passes of the retry loop of select_debate_models
    cur |-> Null,              \* current_model / current_judge / current_auditor
    excl |-> {},               \* exclude_ids of the call in flight
    js |-> NewJudgeService ]

\* first pass of the attempt loop (scheduler.py 296-349): create the Debate
create_debate(w, q, is_blinded) ==
  Local(LoadModels(w.s, w.d, {m \in ActiveModels(w.s, w.d) : m \notin w.r.excused}, FALSE), LAMBDA s0 :
  Local([BlankDebate EXCEPT !.exists = TRUE, !.pro = q.pro, !.con = q.con,
                               !.judge = q.judge, !.auditor = q.auditor,
                               !.status = "scheduled", !.blinded = is_blinded,
                               !.id = 1], LAMBDA o :     \* debate_id = uuid.uuid4()
  Local([s0 EXCEPT !.obj = o, !.loaded = TRUE, !.dirty = DFields,
                       !.wrote = @ \cup {DebateRow}], LAMBDA s1 :
  Local(SetTopic(s1, w.d, "selected"), LAMBDA s2 :
  run_debate([w EXCEPT !.s = s2, !.r.sel = q])))))

\* a restart that draws a new id and a new is_blinded for the Debate
restart_debate_recreated(w, q) ==
  Local(LoadModels(w.s, w.d, {m \in ActiveModels(w.s, w.d) : m \notin w.r.excused}, FALSE), LAMBDA s0 :
  Local(SetDebate(s0, [pro |-> q.pro, con |-> q.con, judge |-> q.judge,
                           auditor |-> q.auditor, status |-> "scheduled",
                           id |-> w.r.attempt + 1, blinded |-> ~s0.obj.blinded]), LAMBDA s1 :
  run_debate([w EXCEPT !.s = s1, !.r.sel = q])))

\* later pass of the attempt loop (scheduler.py 296-349): reuse the Debate
restart_debate(w, q) ==
  Local(LoadModels(w.s, w.d, {m \in ActiveModels(w.s, w.d) : m \notin w.r.excused}, FALSE), LAMBDA s0 :
  Local(SetDebate(s0, [pro |-> q.pro, con |-> q.con, judge |-> q.judge,
                           auditor |-> q.auditor, status |-> "scheduled"]), LAMBDA s1 :
  run_debate([w EXCEPT !.s = s1, !.r.sel = q])))

\* the model and role the scheduler's handler excuses (scheduler.py 458-563)
HandlerExcuses(sel, kind, culprit) ==
  IF kind = "RuntimeError_auditor" THEN [model |-> sel.auditor, role |-> "auditor"]
  ELSE IF kind = "RuntimeError_judge" THEN [model |-> sel.judge, role |-> "judge"]
  ELSE IF culprit = sel.judge THEN [model |-> culprit, role |-> "judge"]
  ELSE IF culprit = sel.auditor THEN [model |-> culprit, role |-> "auditor"]
  ELSE IF culprit = sel.pro THEN [model |-> culprit, role |-> "pro"]
  ELSE IF culprit = sel.con THEN [model |-> culprit, role |-> "con"]
  ELSE [model |-> sel.judge, role |-> "judge"]

\* except RuntimeError / except TimeoutError of run_single_debate
handle_restart(w, kind, culprit) ==
  Local(HandlerExcuses(w.r.sel, kind, culprit), LAMBDA x :
  Local([w.r EXCEPT !.excused = @ \cup {x.model},
                        !.excuses = Append(@, NewExcuse(x.model, x.role, "scheduler",
                                                        w.r.attempt + 1, Null))], LAMBDA r1 :
  Local(SetModel(w.s, w.d, x.model,
                     [excused |-> ReadModel(w.s, w.d, x.model).excused + 1]), LAMBDA s1 :
  Local(DeleteEntries(s1, w.d), LAMBDA s2 :
  IF w.r.attempt >= MAX_CONTENT_FILTER_RESTARTS
    THEN [w EXCEPT !.s = SetDebate(SetTopic(s2, w.d, "pending"), [excuses |-> r1.excuses]),
                   !.r = [r1 EXCEPT !.pc = "raise"]]
    ELSE [w EXCEPT !.s = s2, !.r = [r1 EXCEPT !.pc = "select", !.attempt = @ + 1]]))))

\* scheduler.py 375-398: merge excuses, Elo, topic DEBATED, metadata, return
finish_debate(w) ==
  Local([w.r EXCEPT !.excuses = @ \o w.r.js.excuses], LAMBDA r1 :
  Local(update_elos_for_debate(w.s, w.d), LAMBDA e :
  IF e.err # "none" THEN [w EXCEPT !.s = e.s, !.r = [r1 EXCEPT !.pc = "raise"]]
  ELSE
    Local(SetTopic(e.s, w.d, "debated"), LAMBDA s1 :
    Local(IF r1.excuses # <<>> THEN SetDebate(s1, [excuses |-> r1.excuses]) ELSE s1, LAMBDA s2 :
    [w EXCEPT !.s = s2, !.r = [r1 EXCEPT !.pc = "return", !.outcome = "completed"]]))))

\* the caller (_run_scheduled_debate / trigger_debate): commit on return,
\* close the session without commit when the exception propagates
RunnerDone(r, outcome) ==
  [InitRun EXCEPT !.pc = "done", !.outcome = outcome, !.attempt = r.attempt,
                  !.excused = r.excused, !.excuses = r.excuses, !.sel = r.sel]
run_scheduled_debate(w) ==
  IF w.r.pc = "raise"
    THEN [s |-> Rollback(w.s), d |-> w.d, r |-> RunnerDone(w.r, "error")]
  ELSE IF w.r.pc = "return"
    THEN [s |-> Rollback(CommitSess(w.s)), d |-> CommitDb(w.s, w.d),
          r |-> RunnerDone(w.r, w.r.outcome)]
  ELSE w

LocksFree(t, rows) == \A u \in Tasks \ {t} : Locks(sess[u]) \cap rows = {}

World(t, r) == [s |-> [sess[t] EXCEPT !.wrote = {}], d |-> db, r |-> r]

\* ------------------------------------------------------------- history
NoSub == [repl |-> Null, before |-> {}, roles |-> {}, by |-> "none"]
NoRestart == [sel |-> NoRel, before |-> {}]
InitHist ==
  [ excused |-> [t \in Tasks |-> {}],   \* models excused so far, per task
    sub |-> NoSub,                      \* the last substitution made
    restart |-> NoRestart,              \* the last restart quartet chosen
    turns |-> {},                       \* outcomes of the debater calls of the run
    nexc |-> 0,                         \* excuses recorded by run_single_debate
    other |-> [m \in Models |-> 0],     \* Elo updates other debates committed, per model
    slow |-> {},                        \* models that time out whenever they are asked to audit
    later |-> 0,                        \* later scheduled runs of run_single_debate
    calls |-> <<>> ]                    \* the judge service's model calls, with their replies
RolesOf(o) == {o.pro, o.con, o.judge, o.auditor} \ {Null}
AllExcused(h) == UNION {h.excused[t] : t \in Tasks}
\* history after task t excused the models xs and (repl # Null) substituted repl
Excused(h, t, xs, repl, roles) ==
  [h EXCEPT !.excused[t] = @ \cup xs,
            !.sub = IF repl = Null THEN @
                    ELSE [repl |-> repl, before |-> AllExcused(h) \cup xs,
                          roles |-> roles, by |-> t]]

\* history after a debater call of run_single_debate returned `out`
Called(h, out) == [h EXCEPT !.turns = @ \cup {out}]
\* history after run_single_debate and its services recorded n excuses
Recorded(h, n) == [h EXCEPT !.nexc = @ + n]

PublishR(w0, h) ==
  LocalIn(run_scheduled_debate(w0), LAMBDA w :
  /\ LocksFree("R", w.s.wrote)
  /\ db' = w.d
  /\ sess' = [sess EXCEPT !["R"] = [w.s EXCEPT !.wrote = {}]]
  /\ run' = w.r
  /\ hist' = h)

\* the attempt loop's next pass, once a handler has decided to continue
ContinueR(w, h) ==
  IF w.r.pc = "select"
    THEN LocalIn(select_debate_models(w.s, w.d, w.r.excused,
                                        Shuffles(Eligible(w.s, w.d, w.r.excused))), LAMBDA qs :
         IF qs = {}
           THEN PublishR([w EXCEPT !.r.pc = "return", !.r.outcome = "no_models"], h)
           ELSE \E q \in qs :
                  PublishR(restart_debate(w, q),
                           [h EXCEPT !.restart = [sel |-> q, before |-> h.excused["R"]]]))
    ELSE PublishR(w, h)

Fault(out) ==
  /\ IsFault(out) => faults > 0
  /\ faults' = IF IsFault(out) THEN faults - 1 ELSE faults

\* the reply of the auditor cur: a model of hist.slow never answers in time
AuditReply(cur, out) ==
  IF cur \in hist.slow THEN out = "timeout" /\ faults' = faults ELSE Fault(out)

Replacements(s, out, cur, excl) ==
  IF out = "filter" THEN find_replacement_model(s, db, excl \cup {cur}) ELSE {Null}

\* run_single_debate from its call to the first model call
R_Begin ==
  /\ run.pc = "idle"
  /\ select_next_topic(sess["R"], db)
  /\ \E q \in select_debate_models(sess["R"], db, {},
                                    {Numbering(Eligible(sess["R"], db, {}))}),
        is_blinded \in BOOLEAN :
       PublishR(create_debate(World("R", run), q, is_blinded), hist)
  /\ UNCHANGED <<wd, mr, faults>>

\* a debater's reply arrives (orchestrator._run_turn)
R_Turn ==
  /\ run.pc = "turn"
  /\ \E out \in DebaterOutcomes :
       /\ Fault(out)
       /\ \E repl \in Replacements(sess["R"], out, run.cur, run.excl) :
            PublishR(run_turn_reply(World("R", run), out, repl),
                     Called(IF out = "filter"
                              THEN Recorded(Excused(hist, "R", {run.cur}, repl,
                                                    RolesOf(sess["R"].obj)), 1)
                              ELSE hist, out))
  /\ UNCHANGED <<wd, mr>>

\* what run_single_debate does with the result of a judge-service call
AfterService(w, j, kind) ==
  Local([w EXCEPT !.s = j.s, !.r.js = j.js, !.r.cur = j.cur, !.r.excl = j.excl], LAMBDA w1 :
  IF j.res = "call" THEN w1
  ELSE IF j.res \in {"RuntimeError_judge", "RuntimeError_auditor", "TimeoutError"}
    THEN handle_restart(w1, j.res, j.cur)
  ELSE IF j.res = "ValueError" THEN [w1 EXCEPT !.r.pc = "raise"]
  ELSE IF kind = "judge"
    THEN Local(audit_judge_begin(j.s, w.d, j.js), LAMBDA b :
         [w1 EXCEPT !.s = b.s, !.r.cur = b.cur, !.r.excl = b.excl,
                    !.r.pc = IF b.res = "call" THEN "audit" ELSE "raise"])
  ELSE finish_debate(w1))

HandlerExcused(sel, j) ==
  IF j.res \in {"RuntimeError_judge", "RuntimeError_auditor", "TimeoutError"}
    THEN {HandlerExcuses(sel, j.res, j.cur).model} ELSE {}

\* the judge's reply arrives (judge_service.judge_debate)
R_Judge ==
  /\ run.pc = "judge"
  /\ \E out \in JudgeOutcomes :
       /\ Fault(out)
       /\ \E repl \in Replacements(sess["R"], out, run.cur, run.excl) :
            LocalIn(World("R", run), LAMBDA w :
            LocalIn(judge_debate_reply(w.s, db, run.js, run.cur, run.excl, out, repl, "R"), LAMBDA j :
            LocalIn((IF out = "filter" THEN {run.cur} ELSE {}) \cup HandlerExcused(run.sel, j), LAMBDA xs :
               ContinueR(AfterService(w, j, "judge"),
                         Recorded(Excused(hist, "R", xs, repl, RolesOf(w.s.obj)),
                                  (IF out = "filter" THEN 1 ELSE 0)
                                    + Cardinality(HandlerExcused(run.sel, j)))))))
  /\ UNCHANGED <<wd, mr>>

\* the auditor's reply arrives (judge_service.audit_judge)
R_Audit ==
  /\ run.pc = "audit"
  /\ \E out \in AuditOutcomes :
       /\ AuditReply(run.cur, out)
       /\ \E repl \in Replacements(sess["R"], out, run.cur, run.excl) :
            LocalIn(World("R", run), LAMBDA w :
            LocalIn(audit_judge_reply(w.s, db, run.js, run.cur, run.excl, out, repl, "R"), LAMBDA j :
            LocalIn((IF out = "filter" THEN {run.cur} ELSE {}) \cup HandlerExcused(run.sel, j), LAMBDA xs :
               ContinueR(AfterService(w, j, "audit"),
                         Recorded(Excused(hist, "R", xs, repl, RolesOf(w.s.obj)),
                                  (IF out = "filter" THEN 1 ELSE 0)
                                    + Cardinality(HandlerExcused(run.sel, j)))))))
  /\ UNCHANGED <<wd, mr>>

\* --------------------------------------------- scheduler.py: the watchdog
InitWd == [pc |-> "idle", attempt |-> 0,
           xaud |-> {},                 \* excused_auditor_ids
           js |-> NewJudgeService, cur |-> Null, excl |-> {}]

\* the end of a sweep that leaves the session's transaction as it is
sweep_end_without_rollback(w) == [w EXCEPT !.r = InitWd]

\* the sweep is over: the session of _cleanup_stuck_debates is closed
sweep_end(w) == [w EXCEPT !.s = Rollback(w.s), !.r = InitWd]

\* one pass of the loop of _recover_stuck_debate, up to the first model call
recover_attempt(w) ==
  Local(RefreshDebate(w.s, w.d), LAMBDA s1 :
  Local(LoadModels(s1, w.d, {s1.obj.judge, s1.obj.auditor}, FALSE), LAMBDA s2 :
  Local(NewJudgeService, LAMBDA js :
  Local(s2.obj.pro_score # Null /\ s2.obj.con_score # Null, LAMBDA judgment_complete :
  Local(IF judgment_complete THEN audit_judge_begin(s2, w.d, js)
                                ELSE judge_debate_begin(s2, w.d, js), LAMBDA b :
  IF b.res # "call" THEN sweep_end([w EXCEPT !.s = b.s])
  ELSE [w EXCEPT !.s = b.s, !.r.js = js, !.r.cur = b.cur, !.r.excl = b.excl,
                 !.r.pc = IF judgment_complete THEN "audit" ELSE "judge"])))))

\* except TimeoutError of _recover_stuck_debate.  After the rollback the Debate
\* object is expired; reading debate.auditor_id either reloads the row
\* (lazy_ok) or fails, which ends the sweep.  new_auditor is the row returned
\* by _find_replacement_auditor.
recover_timeout(w, lazy_ok, new_auditor) ==
  Local(Rollback(w.s), LAMBDA s1 :
  IF w.r.attempt >= MAX_WATCHDOG_RECOVERY_ATTEMPTS - 1
    THEN sweep_end([w EXCEPT !.s = s1])
  ELSE IF ~lazy_ok \/ new_auditor = Null THEN sweep_end([w EXCEPT !.s = s1])
  ELSE
    Local(RefreshDebate(s1, w.d), LAMBDA s2 :
    Local(SetDebate(s2, [auditor |-> new_auditor]), LAMBDA s3 :
    recover_attempt([w EXCEPT !.s = CommitSess(s3), !.d = CommitDb(s3, w.d),
                              !.r.attempt = @ + 1,
                              !.r.xaud = @ \cup {s2.obj.auditor}]))))

find_replacement_auditor(s, d, exclude_ids) ==
  Local(ViewDebate(s, d), LAMBDA o :
  find_replacement_model(s, d, {o.judge, o.pro, o.con} \cup exclude_ids))

\* what _recover_stuck_debate does with the result of a judge-service call
AfterRecovery(w, j, kind, lazy_ok, new_auditor) ==
  Local([w EXCEPT !.s = j.s, !.r.js = j.js, !.r.cur = j.cur, !.r.excl = j.excl], LAMBDA w1 :
  IF j.res = "call" THEN w1
  ELSE IF j.res = "TimeoutError" THEN recover_timeout(w1, lazy_ok, new_auditor)
  ELSE IF j.res # "ok" THEN sweep_end(w1)
  ELSE IF kind = "judge"
    THEN Local(CommitDb(j.s, w.d), LAMBDA d1 :
         Local(audit_judge_begin(CommitSess(j.s), d1, j.js), LAMBDA b :
         IF b.res # "call" THEN sweep_end([w1 EXCEPT !.s = b.s, !.d = d1])
         ELSE [w1 EXCEPT !.s = b.s, !.d = d1, !.r.cur = b.cur, !.r.excl = b.excl,
                         !.r.pc = "audit"]))
  ELSE [w1 EXCEPT !.s = CommitSess(j.s), !.d = CommitDb(j.s, w.d), !.r.pc = "elo"])

\* _recover_stuck_debate after the audit's commit (scheduler.py 197-208)
recover_finish(w) ==
  Local(update_elos_for_debate(w.s, w.d), LAMBDA e :
  IF e.err # "none" THEN sweep_end([w EXCEPT !.s = e.s])
  ELSE
    Local(SetTopic(e.s, w.d, "debated"), LAMBDA s2 :
    sweep_end([w EXCEPT !.s = CommitSess(s2), !.d = CommitDb(s2, w.d)])))

PublishW(w, h) ==
  /\ LocksFree("W", w.s.wrote)
  /\ db' = w.d
  /\ sess' = [sess EXCEPT !["W"] = [w.s EXCEPT !.wrote = {}]]
  /\ wd' = w.r
  /\ hist' = h

\* a sweep whose query has no age filter
W_Start_AnyAge ==
  /\ wd.pc = "idle"
  /\ db.debate.exists /\ db.debate.status = "judging"
  /\ PublishW(recover_attempt(World("W", InitWd)), hist)
  /\ UNCHANGED <<run, mr, faults>>

\* _cleanup_stuck_debates finds the debate stuck in JUDGING
W_Start ==
  /\ wd.pc = "idle"
  /\ db.debate.exists /\ db.debate.status = "judging" /\ db.debate.started = "old"
  /\ PublishW(recover_attempt(World("W", InitWd)), hist)
  /\ UNCHANGED <<run, mr, faults>>

\* history after the watchdog's reply handling
RecoveryHist(out, cur, repl, roles, lazy_ok, new_auditor) ==
  IF out = "filter" THEN Excused(hist, "W", {cur}, repl, roles)
  ELSE IF /\ out = "timeout" /\ wd.attempt < MAX_WATCHDOG_RECOVERY_ATTEMPTS - 1
          /\ lazy_ok /\ new_auditor # Null
    THEN Excused(hist, "W", {db.debate.auditor}, new_auditor, RolesOf(db.debate))
  ELSE hist

NewAuditors(s, out, xaud) ==
  IF out = "timeout"
    THEN find_replacement_auditor(Rollback(s), db, xaud \cup {db.debate.auditor})
    ELSE {Null}

W_Judge ==
  /\ wd.pc = "judge"
  /\ \E out \in JudgeOutcomes :
       /\ Fault(out)
       /\ \E repl \in Replacements(sess["W"], out, wd.cur, wd.excl),
             lazy_ok \in (IF out = "timeout" THEN BOOLEAN ELSE {TRUE}),
             new_auditor \in NewAuditors(sess["W"], out, wd.xaud) :
            LocalIn(World("W", wd), LAMBDA w :
            LocalIn(judge_debate_reply(w.s, db, wd.js, wd.cur, wd.excl, out, repl, "W"), LAMBDA j :
               PublishW(AfterRecovery(w, j, "judge", lazy_ok, new_auditor),
                        RecoveryHist(out, wd.cur, repl, RolesOf(w.s.obj), lazy_ok,
                                     new_auditor))))
  /\ UNCHANGED <<run, mr>>

W_Audit ==
  /\ wd.pc = "audit"
  /\ \E out \in AuditOutcomes :
       /\ AuditReply(wd.cur, out)
       /\ \E repl \in Replacements(sess["W"], out, wd.cur, wd.excl),
             lazy_ok \in (IF out = "timeout" THEN BOOLEAN ELSE {TRUE}),
             new_auditor \in NewAuditors(sess["W"], out, wd.xaud) :
            LocalIn(World("W", wd), LAMBDA w :
            LocalIn(audit_judge_reply(w.s, db, wd.js, wd.cur, wd.excl, out, repl, "W"), LAMBDA j :
               PublishW(AfterRecovery(w, j, "audit", lazy_ok, new_auditor),
                        RecoveryHist(out, wd.cur, repl, RolesOf(w.s.obj), lazy_ok,
                                     new_auditor))))
  /\ UNCHANGED <<run, mr>>

\* Elo update, topic DEBATED and the last commit of the recovery
W_Finish ==
  /\ wd.pc = "elo"
  /\ PublishW(recover_finish(World("W", wd)), hist)
  /\ UNCHANGED <<run, mr, faults>>

\* ------------------------------------------------ admin.py: retry_judging
InitMr == [pc |-> "idle", js |-> NewJudgeService, cur |-> Null, excl |-> {}]

\* the request is over: get_db closes the session
request_end(w) == [w EXCEPT !.s = Rollback(w.s), !.r = InitMr]

\* retry_judging up to the first model call
retry_judging(w, new_judge_id) ==
  Local(RefreshDebate(w.s, w.d), LAMBDA s0 :
  Local(IF new_judge_id = Null THEN s0
            ELSE SetDebate(LoadModels(s0, w.d, {new_judge_id}, FALSE),
                           [judge |-> new_judge_id]), LAMBDA s1 :
  Local(CommitDb(s1, w.d), LAMBDA d1 :
  Local(NewJudgeService, LAMBDA js :
  Local(judge_debate_begin(IF new_judge_id = Null THEN s1 ELSE CommitSess(s1),
                              IF new_judge_id = Null THEN w.d ELSE d1, js), LAMBDA b :
  IF b.res # "call" THEN request_end([w EXCEPT !.s = b.s, !.d = d1])
  ELSE [w EXCEPT !.s = b.s, !.d = IF new_judge_id = Null THEN w.d ELSE d1,
                 !.r = [pc |-> "judge", js |-> js, cur |-> b.cur, excl |-> b.excl]])))))

\* what retry_judging does with the result of a judge-service call
AfterRetry(w, j, kind) ==
  Local([w EXCEPT !.s = j.s, !.r.js = j.js, !.r.cur = j.cur, !.r.excl = j.excl], LAMBDA w1 :
  IF j.res = "call" THEN w1
  ELSE IF j.res # "ok" THEN request_end(w1)
  ELSE IF kind = "judge"
    THEN Local(audit_judge_begin(j.s, w.d, j.js), LAMBDA b :
         IF b.res # "call" THEN request_end([w1 EXCEPT !.s = b.s])
         ELSE [w1 EXCEPT !.s = b.s, !.r.cur = b.cur, !.r.excl = b.excl, !.r.pc = "audit"])
  ELSE
    Local(update_elos_for_debate(j.s, w.d), LAMBDA e :
    IF e.err # "none" THEN request_end([w1 EXCEPT !.s = e.s])
    ELSE
      Local(SetTopic(e.s, w.d, "debated"), LAMBDA s2 :
      request_end([w1 EXCEPT !.s = CommitSess(s2), !.d = CommitDb(s2, w.d)]))))

PublishM(w, h) ==
  /\ LocksFree("M", w.s.wrote)
  /\ db' = w.d
  /\ sess' = [sess EXCEPT !["M"] = [w.s EXCEPT !.wrote = {}]]
  /\ mr' = w.r
  /\ hist' = h

\* POST /debates/{id}/retry-judging, with or without new_judge_id
M_Start ==
  /\ mr.pc = "idle"
  /\ db.debate.exists /\ db.debate.status = "judging"
  /\ \E new_judge_id \in {Null} \cup (Models \ {db.debate.pro, db.debate.con}) :
       PublishM(retry_judging(World("M", InitMr), new_judge_id), hist)
  /\ UNCHANGED <<run, wd, faults>>

M_Judge ==
  /\ mr.pc = "judge"
  /\ \E out \in JudgeOutcomes :
       /\ Fault(out)
       /\ \E repl \in Replacements(sess["M"], out, mr.cur, mr.excl) :
            LocalIn(World("M", mr), LAMBDA w :
            LocalIn(judge_debate_reply(w.s, db, mr.js, mr.cur, mr.excl, out, repl, "M"), LAMBDA j :
               PublishM(AfterRetry(w, j, "judge"),
                        Excused(hist, "M", IF out = "filter" THEN {mr.cur} ELSE {},
                                repl, RolesOf(w.s.obj)))))
  /\ UNCHANGED <<run, wd>>

M_Audit ==
  /\ mr.pc = "audit"
  /\ \E out \in AuditOutcomes :
       /\ AuditReply(mr.cur, out)
       /\ \E repl \in Replacements(sess["M"], out, mr.cur, mr.excl) :
            LocalIn(World("M", mr), LAMBDA w :
            LocalIn(audit_judge_reply(w.s, db, mr.js, mr.cur, mr.excl, out, repl, "M"), LAMBDA j :
               PublishM(AfterRetry(w, j, "audit"),
                        Excused(hist, "M", IF out = "filter" THEN {mr.cur} ELSE {},
                                repl, RolesOf(w.s.obj)))))
  /\ UNCHANGED <<run, wd>>

\* ------------------------------------------- another debate completes
\* Another invocation of run_single_debate (a scheduled slot or the admin's
\* trigger_debate), on a debate of its own won by `winner` against `loser`, runs
\* update_elos_for_debate and commits.  Its session read both model rows after
\* the last commit; its own Debate and Topic rows are not part of the model.
OtherDebateCompletes ==
  /\ SumOver(hist.other, Models) < 2 * MaxOtherDebates
  /\ \E winner \in ActiveModels(BlankSession, db),
        loser \in ActiveModels(BlankSession, db) :
       /\ winner # loser
       /\ \A u \in Tasks : Locks(sess[u]) \cap {winner, loser} = {}
       /\ LocalIn(calculate_new_elos(db.models[winner].elo, db.models[loser].elo), LAMBDA new :
            db' = [db EXCEPT !.models[winner].elo = new[1], !.models[winner].won = @ + 1,
                             !.models[loser].elo = new[2], !.models[loser].lost = @ + 1])
       /\ hist' = [hist EXCEPT !.other[winner] = @ + 1, !.other[loser] = @ + 1]
  /\ UNCHANGED <<sess, run, wd, mr, faults>>

\* ------------------------------------------------------------------ time
\* STUCK_DEBATE_THRESHOLD_MINUTES pass since the debate's started_at
Tick ==
  /\ db.debate.status = "judging" /\ db.debate.started = "recent"
  /\ db' = [db EXCEPT !.debate.started = "old"]
  /\ UNCHANGED <<sess, run, wd, mr, faults, hist>>

\* --------------------------------------------------------- specification
\* the database before the run: one pending topic, n_active active models
InitDb(n_active) ==
  [ debate |-> BlankDebate, entries |-> <<>>,
    models |-> [m \in Models |-> InitModel(m <= n_active)], topic |-> "pending" ]

InitSlow(n_active, n_faults, slow) ==
  /\ db = InitDb(n_active)
  /\ sess = [t \in Tasks |-> BlankSession]
  /\ run = InitRun
  /\ wd = InitWd
  /\ mr = InitMr
  /\ faults = n_faults
  /\ hist = [InitHist EXCEPT !.slow = slow]

InitWith(n_active, n_faults) == InitSlow(n_active, n_faults, {})

\* run_single_debate, the watchdog and retry_judging side by side, every
\* provider call answering
Init == InitWith(NModels - 1, 0)

Next ==
  \/ R_Begin \/ R_Turn \/ R_Judge \/ R_Audit
  \/ W_Start \/ W_Judge \/ W_Audit \/ W_Finish
  \/ M_Start \/ M_Judge \/ M_Audit
  \/ Tick

Spec == Init /\ [][Next]_vars

\* run_single_debate on its own
InitRunner == InitWith(NModels - 1, MaxFaults)

NextRunner == R_Begin \/ R_Turn \/ R_Judge \/ R_Audit

SpecRunner == InitRunner /\ [][NextRunner]_vars

\* run_single_debate and the watchdog
InitOverlap == InitWith(NModels - 1, MaxOverlapFaults)

NextWatchdog ==
  \/ R_Begin \/ R_Turn \/ R_Judge \/ R_Audit
  \/ W_Start \/ W_Judge \/ W_Audit \/ W_Finish
  \/ Tick

SpecWatchdog == InitOverlap /\ [][NextWatchdog]_vars

\* run_single_debate and the admin's retry_judging
NextRetry ==
  \/ R_Begin \/ R_Turn \/ R_Judge \/ R_Audit
  \/ M_Start \/ M_Judge \/ M_Audit

SpecRetry == InitOverlap /\ [][NextRetry]_vars

\* run_single_debate while another debate completes, every provider call answering
NextElo == R_Begin \/ R_Turn \/ R_Judge \/ R_Audit \/ OtherDebateCompletes

SpecElo == Init /\ [][NextElo]_vars

\* a later firing of the debate cron job: run_single_debate selects a topic and
\* inserts a Debate row of its own; none of its statements reads or writes the
\* row or the transcript of the debate an earlier run left behind
R_Later ==
  /\ run.pc = "done"
  /\ hist.later < MaxLaterRuns
  /\ db' = IF select_next_topic(sess["R"], db) THEN [db EXCEPT !.topic = "selected"] ELSE db
  /\ hist' = [hist EXCEPT !.later = @ + 1]
  /\ UNCHANGED <<sess, run, wd, mr, faults>>

\* run_single_debate after k debater replies in a row
RECURSIVE AfterReplies(_, _)
AfterReplies(w, k) ==
  IF k = 0 THEN w ELSE AfterReplies(run_turn_reply(w, "ok", Null), k - 1)

\* the run ends on the next reply: a debater's provider raises, or (after the
\* closing Con turn) the judge's answer cannot be parsed; the exception
\* propagates to _run_scheduled_debate
LeftBehind(w) ==
  run_scheduled_debate(
    IF w.r.pc = "turn" THEN run_turn_reply(w, "fail", Null)
    ELSE AfterService(w, judge_debate_reply(w.s, w.d, w.r.js, w.r.cur, w.r.excl,
                                            "bad", Null, "R"), "judge"))

\* the models outside the first quartet's debaters and judge; up to two of them
\* never answer an audit in time
SlowChoices == {S \in SUBSET (4 .. NModels) : Cardinality(S) <= 2}

\* the states a failed run of run_single_debate leaves behind
InitRecovery ==
  \E slow \in SlowChoices, k \in 0 .. Len(Turns), is_blinded \in BOOLEAN,
     q \in select_debate_models(BlankSession, InitDb(NModels), {},
                                {Numbering(Eligible(BlankSession, InitDb(NModels), {}))}) :
    \E w \in {LeftBehind(AfterReplies(
                 create_debate([s |-> BlankSession, d |-> InitDb(NModels), r |-> InitRun],
                               q, is_blinded), k))} :
      /\ db = w.d
      /\ sess = [t \in Tasks |-> IF t = "R" THEN [w.s EXCEPT !.wrote = {}] ELSE BlankSession]
      /\ run = w.r
      /\ wd = InitWd
      /\ mr = InitMr
      /\ faults = 0
      /\ hist = [InitHist EXCEPT !.slow = slow]

NextRecovery ==
  \/ W_Start \/ W_Judge \/ W_Audit \/ W_Finish
  \/ R_Later
  \/ Tick

\* the watchdog's interval job keeps firing, every provider call returns or
\* times out (asyncio.wait_for), time passes
FairRecovery ==
  /\ WF_vars(W_Start)
  /\ WF_vars(W_Judge \/ W_Audit \/ W_Finish)
  /\ WF_vars(Tick)

SpecRecovery == InitRecovery /\ [][NextRecovery]_vars /\ FairRecovery

\* run_single_debate from its call to its return when every call answers and
\* the judge names Pro the winner
CompletedRun(d0) ==
  Local(select_debate_models(BlankSession, d0, {}, {Numbering(Eligible(BlankSession, d0, {}))}), LAMBDA qs :
  Local(CHOOSE q \in qs : TRUE, LAMBDA q :
  Local(AfterReplies(create_debate([s |-> BlankSession, d |-> d0, r |-> InitRun], q, TRUE),
                     Len(Turns)), LAMBDA w1 :
  Local(AfterService(w1, judge_debate_reply(w1.s, w1.d, w1.r.js, w1.r.cur, w1.r.excl,
                                            "pro", Null, "R"), "judge"), LAMBDA w2 :
  Local(AfterService(w2, audit_judge_reply(w2.s, w2.d, w2.r.js, w2.r.cur, w2.r.excl,
                                           "ok", Null, "R"), "audit"), LAMBDA w3 :
  run_scheduled_debate(w3))))))

\* the inputs of select_debate_models: the active flags of the models table,
\* exclude_model_ids, and the debates of the last MATCHUP_COOLDOWN_DAYS (none,
\* or one completed debate); the next topic is pending
InitSelectFrom(ActiveSets, ExcludedSets) ==
  \E active \in ActiveSets, recent \in BOOLEAN, excluded \in ExcludedSets :
    \E d \in {IF recent THEN CompletedRun(InitDb(NModels)).d ELSE InitDb(NModels)} :
      /\ db = [d EXCEPT !.models = [m \in Models |-> [d.models[m] EXCEPT !.active = m \in active]],
                        !.topic = "pending"]
      /\ sess = [t \in Tasks |-> BlankSession]
      /\ run = [InitRun EXCEPT !.pc = "select", !.excused = excluded]
      /\ wd = InitWd
      /\ mr = InitMr
      /\ faults = 0
      /\ hist = InitHist

InitSelect ==
  InitSelectFrom(SUBSET Models, {S \in SUBSET Models : Cardinality(S) <= MaxExcluded})

\* the call of select_debate_models in run_single_debate and the test of its
\* result (scheduler.py 296-301)
SelectModels ==
  /\ run.pc = "select"
  /\ LocalIn(select_debate_models(sess["R"], db, run.excused,
                                  Shuffles(Eligible(sess["R"], db, run.excused))), LAMBDA qs :
       IF qs = {} THEN run' = RunnerDone(run, "no_models")
       ELSE \E q \in qs : run' = RunnerDone([run EXCEPT !.sel = q], "selected"))
  /\ UNCHANGED <<db, sess, wd, mr, faults, hist>>

SpecSelect == InitSelect /\ [][SelectModels]_vars

\* the pairs of the debates created in the last MATCHUP_COOLDOWN_DAYS
recent_matchups(s, d) ==
  Local(ViewDebate(s, d), LAMBDA v : IF v.exists THEN {{v.pro, v.con}} ELSE {})

\* the quartet a pass of the retry loop returns for the order p, whose pair is
\* not recent
shuffle_quartet(s, d, exclude_model_ids, p) ==
  CHOOSE q \in select_debate_models(s, d, exclude_model_ids, {p}) : TRUE

\* one pass of the retry loop: the shuffled pair is recent and the loop
\* continues, or the quartet is returned
ShuffleAttempt ==
  /\ run.pc = "select"
  /\ Cardinality(Eligible(sess["R"], db, run.excused)) >= 3
  /\ run.tries < max_attempts
  /\ \E p \in Shuffles(Eligible(sess["R"], db, run.excused)) :
       run' = IF {p[1], p[2]} \in recent_matchups(sess["R"], db)
                THEN [run EXCEPT !.tries = @ + 1]
                ELSE [run EXCEPT !.pc = "done", !.outcome = "selected",
                                 !.sel = shuffle_quartet(sess["R"], db, run.excused, p)]
  /\ UNCHANGED <<db, sess, wd, mr, faults, hist>>

\* the random pick without the loop's bound
ShuffleFallback_Early ==
  /\ run.pc = "select"
  /\ Cardinality(Eligible(sess["R"], db, run.excused)) >= 3
  /\ \E p \in Shuffles(Eligible(sess["R"], db, run.excused)) :
       run' = [run EXCEPT !.pc = "done", !.outcome = "selected",
                          !.sel = [pro |-> p[1], con |-> p[2], judge |-> p[3],
                                   auditor |-> IF Len(p) >= 4 THEN p[4] ELSE p[1]]]
  /\ UNCHANGED <<db, sess, wd, mr, faults, hist>>

\* after max_attempts passes: random.shuffle(models) and the first four (three)
ShuffleFallback ==
  /\ run.pc = "select"
  /\ Cardinality(Eligible(sess["R"], db, run.excused)) >= 3
  /\ run.tries = max_attempts
  /\ \E p \in Shuffles(Eligible(sess["R"], db, run.excused)) :
       run' = [run EXCEPT !.pc = "done", !.outcome = "selected",
                          !.sel = [pro |-> p[1], con |-> p[2], judge |-> p[3],
                                   auditor |-> IF Len(p) >= 4 THEN p[4] ELSE p[1]]]
  /\ UNCHANGED <<db, sess, wd, mr, faults, hist>>

\* fewer than three models: None is returned before the loop
ShuffleNone ==
  /\ run.pc = "select"
  /\ Cardinality(Eligible(sess["R"], db, run.excused)) < 3
  /\ run' = [run EXCEPT !.pc = "done", !.outcome = "no_models"]
  /\ UNCHANGED <<db, sess, wd, mr, faults, hist>>

\* select_debate_models pass by pass: the first n models active, at most one
\* model excluded
InitShuffle ==
  InitSelectFrom({1 .. n : n \in 0 .. NModels}, {S \in SUBSET Models : Cardinality(S) <= 1})

NextShuffle == ShuffleAttempt \/ ShuffleFallback \/ ShuffleNone

SpecShuffle == InitShuffle /\ [][NextShuffle]_vars

\* ratings the two debaters may have before the debate
RatingChoices == {1300, 1484, 1500, 1516, 1700}

\* a debate left in JUDGING after its ten turns, between debaters of any two
\* ratings; the watchdog judges, audits and rates it
InitRating ==
  \E pro_elo \in RatingChoices, con_elo \in RatingChoices :
    \E d0 \in {[InitDb(NModels) EXCEPT !.models[1].elo = pro_elo, !.models[2].elo = con_elo]} :
    \E q \in select_debate_models(BlankSession, d0, {}, {Numbering(Eligible(BlankSession, d0, {}))}) :
    \E w \in {LeftBehind(AfterReplies(
                 create_debate([s |-> BlankSession, d |-> d0, r |-> InitRun], q, TRUE),
                 Len(Turns)))} :
      /\ db = w.d
      /\ sess = [t \in Tasks |-> IF t = "R" THEN [w.s EXCEPT !.wrote = {}] ELSE BlankSession]
      /\ run = w.r
      /\ wd = InitWd
      /\ mr = InitMr
      /\ faults = 0
      /\ hist = InitHist

SpecRating == InitRating /\ [][NextRecovery]_vars

\* the answers of a judge: detailed (four category scores per side, in the
\* order logical_consistency, evidence, persuasiveness, engagement), old
\* format (two totals), or without the score fields
JudgeAnswers ==
  LET Categories == { <<20, 20, 20, 20>>, <<15, 15, 15, 15>>, <<25, 25, 25, 25>>,
                      <<0, 0, 0, 0>>, <<40, 10, 10, 10>>, <<-5, 25, 25, 25>>,
                      <<26, 25, 25, 25>>, <<30, 30, 30, 30>> }
      Totals == {-1, 0, 60, 80, 100, 101}
      Winners == {"pro", "con", "missing", "tie"}
  IN  [format : {"detailed"}, pro : Categories, con : Categories, winner : Winners]
      \cup [format : {"legacy"}, pro : Totals, con : Totals, winner : Winners]
      \cup {[format |-> "none", pro |-> 0, con |-> 0, winner |-> "missing"]}

\* the watchdog's judgment of a debate, the judge answering with any JSON object
W_JudgeAnswer ==
  /\ wd.pc = "judge"
  /\ \E data \in JudgeAnswers :
       LocalIn(World("W", wd), LAMBDA w :
       LocalIn(judge_debate_parsed(w.s, db, wd.js, wd.cur, wd.excl, data, "W"), LAMBDA j :
          PublishW(AfterRecovery(w, j, "judge", TRUE, Null),
                   hist)))
  /\ UNCHANGED <<run, mr, faults>>

NextJudgment == W_Start \/ W_JudgeAnswer \/ W_Audit \/ W_Finish \/ R_Later \/ Tick

SpecJudgment == InitRating /\ [][NextJudgment]_vars

\* ---------------------------------------------------------------- JSON retry

\* a second call that is made after any reply without JSON, nudged or not
json_retry_unbounded(calls, kind, model, text) ==
  Local(calls # <<>> /\ calls[Len(calls)].reply = "no_json", LAMBDA nudge :
  [ calls |-> Append(calls, [kind |-> kind, model |-> model, nudge |-> nudge, reply |-> text]),
    out |-> IF text = "no_json" THEN "again"
            ELSE IF text = "invalid" THEN "bad"
            ELSE IF text = "valid" THEN (IF kind = "judge" THEN "pro" ELSE "ok")
            ELSE text ])

\* JudgeService._call_model_with_json_retry, one reply at a time: the reply
\* `text` of `model` is "valid" (JSON that parses into a judgment or audit),
\* "invalid" (JSON with missing or out-of-range fields), "no_json", or the
\* provider's "filter" / "timeout". The call is the nudged one exactly when
\* the reply before it was the first of this invocation and had no JSON.
\* Result: the calls so far and what judge_debate / audit_judge sees
\* ("again" while the second call is awaited).
call_model_with_json_retry(calls, kind, model, text) ==
  Local(calls # <<>> /\ calls[Len(calls)].reply = "no_json" /\ ~calls[Len(calls)].nudge,
        LAMBDA nudge :
  [ calls |-> Append(calls, [kind |-> kind, model |-> model, nudge |-> nudge, reply |-> text]),
    out |-> IF text = "no_json" THEN (IF nudge THEN "bad" ELSE "again")
            ELSE IF text = "invalid" THEN "bad"
            ELSE IF text = "valid" THEN (IF kind = "judge" THEN "pro" ELSE "ok")
            ELSE text ])

\* the watchdog's judgment or audit, from one reply of the model on
W_ServiceCall ==
  /\ wd.pc \in {"judge", "audit"}
  /\ Len(hist.calls) < MaxCalls
  /\ \E text \in (IF wd.pc = "audit" /\ wd.cur \in hist.slow THEN {"timeout"}
                   ELSE {"valid", "invalid", "no_json", "filter", "timeout"}) :
       LocalIn(call_model_with_json_retry(hist.calls, wd.pc, wd.cur, text), LAMBDA c :
       IF c.out = "again"
         THEN hist' = [hist EXCEPT !.calls = c.calls] /\ UNCHANGED <<db, sess, wd>>
         ELSE
           \E repl \in Replacements(sess["W"], c.out, wd.cur, wd.excl),
              lazy_ok \in (IF c.out = "timeout" THEN BOOLEAN ELSE {TRUE}),
              new_auditor \in NewAuditors(sess["W"], c.out, wd.xaud) :
             LocalIn(World("W", wd), LAMBDA w :
             LocalIn(IF wd.pc = "judge"
                       THEN judge_debate_reply(w.s, db, wd.js, wd.cur, wd.excl, c.out, repl, "W")
                       ELSE audit_judge_reply(w.s, db, wd.js, wd.cur, wd.excl, c.out, repl, "W"),
                     LAMBDA j :
               PublishW(AfterRecovery(w, j, wd.pc, lazy_ok, new_auditor),
                        [RecoveryHist(c.out, wd.cur, repl, RolesOf(w.s.obj), lazy_ok, new_auditor)
                           EXCEPT !.calls = c.calls]))))
  /\ UNCHANGED <<run, mr, faults>>

SpecNudge == InitRecovery /\ [][W_Start \/ W_ServiceCall \/ W_Finish \/ R_Later \/ Tick]_vars

\* ---------------------------------------------------------------- empty responses

\* a counter of empty replies that starts again with every substituted model
run_turn_response_per_model(calls, attempt, turn, model, text) ==
  Local(Append(IF calls # <<>> /\ calls[Len(calls)].attempt = attempt
                     /\ calls[Len(calls)].turn = turn THEN calls ELSE <<>>,
               [attempt |-> attempt, turn |-> turn, model |-> model, reply |-> text]), LAMBDA c :
  Local(Cardinality({i \in DOMAIN c : c[i].reply = "empty" /\ c[i].model = model}),
        LAMBDA empty_response_retries :
  [ calls |-> c,
    out |-> IF text = "empty"
              THEN (IF empty_response_retries <= MAX_EMPTY_RESPONSE_RETRIES THEN "again" ELSE "fail")
            ELSE IF text = "text" THEN "ok" ELSE text ]))

\* the body of `while True` in DebateOrchestrator._run_turn up to what the
\* reply `text` of `model` means for the turn: "again" (call the same model
\* once more), "fail" (RuntimeError), "ok" (write the entry) or "filter"
\* (ContentFilterError). empty_response_retries is set to 0 before the loop
\* and counts the empty replies of the invocation, whoever gave them; `calls`
\* holds the calls of the invocation in progress (a call for another turn or
\* attempt starts a new invocation).
run_turn_response(calls, attempt, turn, model, text) ==
  Local(Append(IF calls # <<>> /\ calls[Len(calls)].attempt = attempt
                     /\ calls[Len(calls)].turn = turn THEN calls ELSE <<>>,
               [attempt |-> attempt, turn |-> turn, model |-> model, reply |-> text]), LAMBDA c :
  Local(Cardinality({i \in DOMAIN c : c[i].reply = "empty"}), LAMBDA empty_response_retries :
  [ calls |-> c,
    out |-> IF text = "empty"
              THEN (IF empty_response_retries <= MAX_EMPTY_RESPONSE_RETRIES THEN "again" ELSE "fail")
            ELSE IF text = "text" THEN "ok" ELSE text ]))

\* a debater's reply arrives: text, nothing but whitespace, or a rejection by
\* the provider's content filter
R_TurnResponse ==
  /\ run.pc = "turn"
  /\ \E text \in {"text", "empty", "filter"} :
       /\ text = "filter" => faults > 0
       /\ faults' = IF text = "filter" THEN faults - 1 ELSE faults
       /\ LocalIn(run_turn_response(hist.calls, run.attempt, run.turn, run.cur, text), LAMBDA c :
          IF c.out = "again"
            THEN hist' = [hist EXCEPT !.calls = c.calls] /\ UNCHANGED <<db, sess, run>>
            ELSE
              \E repl \in Replacements(sess["R"], c.out, run.cur, run.excl) :
                PublishR(run_turn_reply(World("R", run), c.out, repl),
                         [Called(IF c.out = "filter"
                                   THEN Recorded(Excused(hist, "R", {run.cur}, repl,
                                                         RolesOf(sess["R"].obj)), 1)
                                   ELSE hist, c.out) EXCEPT !.calls = c.calls]))
  /\ UNCHANGED <<wd, mr>>

SpecTurn == InitWith(NModels - 1, 1) /\ [][R_Begin \/ R_TurnResponse \/ R_Judge \/ R_Audit]_vars

\* ---------------------------------------------------------------- topic selection

\* a query for user topics that leaves out the status filter
top_voted_user_topic_any_status(topics, min_votes) ==
  Local({t \in DOMAIN topics : /\ topics[t].source = "user"
                                /\ topics[t].vote_count >= min_votes}, LAMBDA rows :
  {t \in rows : \A u \in rows : \/ topics[u].vote_count < topics[t].vote_count
                                 \/ (topics[u].vote_count = topics[t].vote_count /\ u >= t)})

\* _get_top_voted_user_topic: the rows the query can return (none or one);
\* topics are numbered in the order of created_at
get_top_voted_user_topic(topics, min_votes) ==
  Local({t \in DOMAIN topics : /\ topics[t].source = "user"
                                /\ topics[t].status = "approved"
                                /\ topics[t].vote_count >= min_votes}, LAMBDA rows :
  {t \in rows : \A u \in rows : \/ topics[u].vote_count < topics[t].vote_count
                                 \/ (topics[u].vote_count = topics[t].vote_count /\ u >= t)})

\* _select_backlog_topic without excluded categories: ORDER BY random() LIMIT 1
\* can return any pending seed topic
select_backlog_topic(topics) ==
  {t \in DOMAIN topics : topics[t].source = "seed" /\ topics[t].status = "pending"}

\* select_next_topic for a topics table and a topic_selection_mode: the topics
\* it can return, Null for None
select_next_topic_in(mode, topics) ==
  Local(IF mode = "user_only" THEN get_top_voted_user_topic(topics, MIN_USER_VOTES)
        ELSE IF mode = "backlog_only" THEN select_backlog_topic(topics)
        ELSE IF get_top_voted_user_topic(topics, MIN_USER_VOTES) # {}
          THEN get_top_voted_user_topic(topics, MIN_USER_VOTES)
        ELSE select_backlog_topic(topics), LAMBDA found :
  IF found = {} THEN {Null} ELSE found)

SelectTopic ==
  /\ run.pc = "select_topic"
  /\ \E t \in select_next_topic_in(run.mode, run.topics) :
       run' = [run EXCEPT !.pc = "done", !.topic = t]
  /\ UNCHANGED <<db, sess, wd, mr, faults, hist>>

\* select_next_topic on any topics table in any of the three modes
SpecTopic ==
  /\ db = InitDb(NModels)
  /\ sess = [t \in Tasks |-> BlankSession]
  /\ \E mode \in {"hybrid", "user_only", "backlog_only"},
        topics \in [1 .. NTopics ->
                     [source : {"seed", "user"},
                      status : {"pending", "approved", "selected", "debated", "rejected"},
                      vote_count : {4, 5, 7}]] :
       run = [pc |-> "select_topic", mode |-> mode, topics |-> topics, topic |-> Null]
  /\ wd = InitWd
  /\ mr = InitMr
  /\ faults = 0
  /\ hist = InitHist
  /\ [][SelectTopic]_vars

\* ---------------------------------------------------------------- provider adapters

\* What an adapter does with the outcome of one request to the remote API.
\* Outcomes: "ok", "rate_limit" (HTTP 429), "connection" (no response),
\* "unavailable" (HTTP 502/503/504), "content_filter" (the provider's safety
\* rejection), "fatal" (any other API error).
\*   anthropic.py 58-86, openai.py 61-87: RateLimitError and
\*     APIConnectionError are retried, an APIError with the content-policy
\*     marker becomes ContentFilterError, any other APIError is re-raised
\*   xai.py 61-81: as openai, but every APIError is re-raised as it is
\*   google.py 84-125: finish_reason SAFETY becomes ContentFilterError,
\*     ResourceExhausted and ServiceUnavailable are retried
\*   mistral.py 58-86: SDKError 429 and 502/503/504 are retried, an SDKError
\*     with a moderation marker becomes ContentFilterError, anything else is
\*     re-raised
\*   deepseek.py 62-92: the same three classes, told apart by the message
classify(provider, out) ==
  IF out = "ok" THEN "return"
  ELSE IF out = "rate_limit" THEN "retry"
  ELSE IF out = "connection"
    THEN (IF provider \in {"anthropic", "openai", "xai"} THEN "retry" ELSE "raise")
  ELSE IF out = "unavailable"
    THEN (IF provider \in {"google", "mistral", "deepseek"} THEN "retry" ELSE "raise")
  ELSE IF out = "content_filter"
    THEN (IF provider = "xai" THEN "raise" ELSE "ContentFilterError")
  ELSE "raise"

\* a retry loop that sleeps the same delay every time
request_with_fixed_delay(c, out) ==
  Local([c EXCEPT !.attempt = @ + 1, !.outcomes = Append(@, out)], LAMBDA c1 :
  Local(classify(c.provider, out), LAMBDA k :
  IF k = "return" THEN [c1 EXCEPT !.pc = "done", !.result = "return"]
  ELSE IF k = "retry"
    THEN Local([c1 EXCEPT !.last_exception = out, !.slept = Append(@, c.delay)], LAMBDA c2 :
         IF c2.attempt = MAX_RETRIES
           THEN [c2 EXCEPT !.pc = "done", !.result = "raise", !.raised = c2.last_exception]
           ELSE c2)
  ELSE IF k = "ContentFilterError"
    THEN [c1 EXCEPT !.pc = "done", !.result = "ContentFilterError",
                    !.raised = <<c.provider, c.model_name>>]
  ELSE [c1 EXCEPT !.pc = "done", !.result = "raise", !.raised = out]))

\* one pass through the body of `for attempt in range(MAX_RETRIES)` of
\* complete / complete_with_usage, and the `raise last_exception` after the
\* loop when that was the last pass
provider_request(c, out) ==
  Local([c EXCEPT !.attempt = @ + 1, !.outcomes = Append(@, out)], LAMBDA c1 :
  Local(classify(c.provider, out), LAMBDA k :
  IF k = "return" THEN [c1 EXCEPT !.pc = "done", !.result = "return"]
  ELSE IF k = "retry"
    THEN Local([c1 EXCEPT !.last_exception = out, !.slept = Append(@, c.delay),
                          !.delay = @ * RETRY_MULTIPLIER], LAMBDA c2 :
         IF c2.attempt = MAX_RETRIES
           THEN [c2 EXCEPT !.pc = "done", !.result = "raise", !.raised = c2.last_exception]
           ELSE c2)
  ELSE IF k = "ContentFilterError"
    THEN [c1 EXCEPT !.pc = "done", !.result = "ContentFilterError",
                    !.raised = <<c.provider, c.model_name>>]
  ELSE [c1 EXCEPT !.pc = "done", !.result = "raise", !.raised = out]))

\* a call of complete or complete_with_usage on the adapter of any model
InitProvider ==
  /\ db = InitDb(NModels)
  /\ sess = [t \in Tasks |-> BlankSession]
  /\ \E provider \in {"anthropic", "openai", "google", "mistral", "xai", "deepseek"},
        method \in {"complete", "complete_with_usage"}, model_name \in 1 .. 2 :
       run = [ pc |-> "request", provider |-> provider, method |-> method,
               model_name |-> model_name, attempt |-> 0, delay |-> RETRY_DELAY_SECONDS,
               last_exception |-> "none", outcomes |-> <<>>, slept |-> <<>>,
               result |-> "none", raised |-> "none" ]
  /\ wd = InitWd
  /\ mr = InitMr
  /\ faults = 0
  /\ hist = InitHist

ProviderRequest ==
  /\ run.pc = "request"
  /\ \E out \in {"ok", "rate_limit", "connection", "unavailable", "content_filter", "fatal"} :
       run' = provider_request(run, out)
  /\ UNCHANGED <<db, sess, wd, mr, faults, hist>>

SpecProvider == InitProvider /\ [][ProviderRequest]_vars

\* ---------------------------------------------------------------- claims

Count(entries, phase) ==
  Len(SelectSeq(entries, LAMBDA e : e.phase = phase /\ ~e.note))

Completed == db.debate.exists /\ db.debate.status = "completed"

\* C1: in every committed database state, a COMPLETED debate has winner,
\* pro_score, con_score, judge_score and the four Elo snapshots non-null
C1_CompletedHasResults ==
  Completed =>
    \A f \in {"winner", "pro_score", "con_score", "judge_score", "pro_elo_before",
              "pro_elo_after", "con_elo_before", "con_elo_after"} :
      db.debate[f] # Null

\* C2: the winner of every COMPLETED debate is its pro or its con debater
C2_WinnerIsDebater ==
  Completed => db.debate.winner \in {db.debate.pro, db.debate.con}

\* C3: the Elo update of the debate is applied at most once: over all models,
\* at most one debates_won and one debates_lost increment is ever committed
C3_EloAppliedOnce ==
  /\ SumOver([m \in Models |-> db.models[m].won], Models) <= 1
  /\ SumOver([m \in Models |-> db.models[m].lost], Models) <= 1

\* C4: once the committed status is COMPLETED, the debate row (status, scores,
\* winner, roles, Elo snapshots) and its transcript entries never change again
C4_CompletedIsTerminal ==
  [][Completed => (db'.debate = db.debate /\ db'.entries = db.entries)]_vars

\* C5: a COMPLETED debate's transcript holds 2 opening, 2 rebuttal, 4
\* cross-examination and 2 closing turns, 1 judgment and 1 audit entry,
\* substitution notices not counted
C5_PhaseCounts ==
  Completed =>
    /\ \A p \in Range(DebatePhases) : Count(db.entries, p) = ExpectedEntries(p)
    /\ Count(db.entries, "judgment") = 1
    /\ Count(db.entries, "audit") = 1

\* C6: at every commit the sequence_order values of the debate's entries are
\* consecutive integers without gaps or repeats, increasing in append order
C6_SequenceConsecutive ==
  \A i \in 1..(Len(db.entries) - 1) : db.entries[i + 1].seq = db.entries[i].seq + 1

\* C7: pro differs from con, the judge differs from both debaters and from the
\* auditor, and the auditor is a debater only when fewer than four models were
\* eligible
C7_RolesDistinct ==
  db.debate.exists =>
    /\ db.debate.pro # db.debate.con
    /\ db.debate.judge \notin {db.debate.pro, db.debate.con, db.debate.auditor}
    /\ db.debate.auditor \in {db.debate.pro, db.debate.con} =>
         Cardinality(Eligible(BlankSession, db, AllExcused(hist))) < 4

\* C8: every replacement chosen by a substitution is active, fills none of the
\* four roles and was not excused earlier in the same debate
C8_ReplacementFresh ==
  hist.sub.repl # Null =>
    /\ db.models[hist.sub.repl].active
    /\ hist.sub.repl \notin hist.sub.roles
    /\ hist.sub.repl \notin hist.sub.before

\* C9: none of the four models selected for a restart attempt was excused
\* earlier in the same run of run_single_debate
C9_RestartExcludesExcused ==
  RolesOf(hist.restart.sel) \cap hist.restart.before = {}

\* C10: when run_single_debate has ended and the debate is not COMPLETED, the
\* topic's committed status is PENDING
C10_TopicReleased ==
  (run.pc = "done" /\ db.debate.exists /\ ~Completed) => db.topic = "pending"

\* C11: when every debater call of the run raised a content-filter error, the
\* run ends after 4 attempts with the topic PENDING, 4 entries in the debate's
\* content_filter_excuses and the debate not COMPLETED
C11_FilterExhaustsBudget ==
  (run.pc = "done" /\ hist.turns = {"filter"}) =>
    /\ run.attempt = MAX_CONTENT_FILTER_RESTARTS
    /\ db.topic = "pending"
    /\ Len(db.debate.excuses) = MAX_CONTENT_FILTER_RESTARTS + 1
    /\ ~Completed

\* C12: when run_single_debate returns a completed debate, the debate's
\* content_filter_excuses holds one entry for every excuse recorded during the
\* run by the scheduler's handlers, the orchestrator and the judge service
C12_ExcusesPreserved ==
  (run.pc = "done" /\ run.outcome = "completed") =>
    Len(db.debate.excuses) = hist.nexc

\* C13: once the committed status has reached JUDGING, the debate's transcript
\* entries are only appended to: no judge or auditor failure or timeout deletes
\* them
C13_NoDeleteAfterJudging ==
  [][db.debate.status \in {"judging", "completed"} =>
       /\ Len(db'.entries) >= Len(db.entries)
       /\ SubSeq(db'.entries, 1, Len(db.entries)) = db.entries]_vars

\* C14: at most one task (run_single_debate, the watchdog's recovery, the manual
\* retry) is executing the judgment, audit or Elo steps of the debate at a time
C14_SingleJudgingTask ==
  Cardinality({t \in Tasks :
                 \/ t = "R" /\ run.pc \in {"judge", "audit"}
                 \/ t = "W" /\ wd.pc \in {"judge", "audit", "elo"}
                 \/ t = "M" /\ mr.pc \in {"judge", "audit"}}) <= 1

\* C15: when debates sharing a model complete concurrently, the model's
\* committed win/loss counters reflect every committed Elo update: the updates
\* of the other debates and that of this debate
C15_NoLostUpdate ==
  \A m \in Models :
    db.models[m].won + db.models[m].lost =
      hist.other[m] + (IF Completed /\ db.debate.pro_elo_after # Null
                            /\ m \in {db.debate.pro, db.debate.con} THEN 1 ELSE 0)

AnsweringAuditors ==
  {m \in Models : /\ db.models[m].active
                  /\ m \notin {db.debate.judge, db.debate.pro, db.debate.con}
                  /\ m \notin hist.slow}

StuckInJudging ==
  /\ db.debate.exists /\ db.debate.status = "judging"
  /\ run.pc = "done" /\ faults = 0

\* C17: a debate in status JUDGING that no run is working on is eventually
\* COMPLETED by the watchdog's sweeps, when every later judge call returns a
\* valid judgment and some eligible auditor answers whenever it is called
C17_StuckEventuallyCompleted ==
  (StuckInJudging /\ AnsweringAuditors # {}) ~> Completed

\* C18: a debate that a finished run left in status IN_PROGRESS eventually
\* reaches JUDGING (or beyond)
C18_AbandonedEventuallyResumed ==
  (db.debate.exists /\ db.debate.status = "in_progress" /\ run.pc = "done")
    ~> (db.debate.status \in {"judging", "completed"})

\* the speaking turns of a transcript, as (phase, position) pairs
Speaking(es) ==
  SelectSeq(es, LAMBDA e : ~e.note /\ e.phase \in Range(DebatePhases))
TurnShape(es) == [i \in 1 .. Len(es) |-> [phase |-> es[i].phase, pos |-> es[i].pos]]
InTurnOrder(es) ==
  /\ Len(Speaking(es)) <= Len(Turns)
  /\ TurnShape(Speaking(es)) = SubSeq(Turns, 1, Len(Speaking(es)))

\* the turns the run has flushed or committed are the first ones of the fixed
\* order, in that order
C19_FixedOrder ==
  InTurnOrder(db.entries) /\ InTurnOrder(ViewEntries(sess["R"], db))

\* while a debater call is in flight the entries of all earlier turns are in
\* the run's transaction and the committed status is IN_PROGRESS
C19_Sequential ==
  run.pc = "turn" =>
    /\ Len(Speaking(ViewEntries(sess["R"], db))) = run.turn - 1
    /\ db.debate.status = "in_progress"

\* while the committed status is JUDGING the committed transcript holds all
\* ten speaking turns, the closing Con turn last
C19_JudgingAfterClosing ==
  db.debate.status = "judging" => Len(Speaking(db.entries)) = Len(Turns)

\* C19: in every orchestrator run the speaking turns are appended in the fixed
\* order, a turn's model call starts only after the entries of the earlier
\* turns are persisted, the status is IN_PROGRESS before the first turn, and the
\* status becomes JUDGING only after the closing Con turn is committed
C19_TurnOrder ==
  C19_FixedOrder /\ C19_Sequential /\ C19_JudgingAfterClosing

\* the models select_debate_models chose from
Selectable == Eligible(BlankSession, db, run.excused)

C21_RecentPairOnlyAfterLoop ==
  (run.outcome = "selected"
     /\ {run.sel.pro, run.sel.con} \in recent_matchups(BlankSession, db))
    => run.tries = max_attempts

C21_Witness ==
  /\ run.outcome = "selected" /\ run.tries = max_attempts
  /\ {run.sel.pro, run.sel.con} \in recent_matchups(BlankSession, db)

\* the step in which update_elos_for_debate rates the debate
EloStep == db.debate.pro_elo_after = Null /\ db'.debate.pro_elo_after # Null
WinnerOf(o) == o.winner
LoserOf(o) == IF o.winner = o.pro THEN o.con ELSE o.pro

\* what every reading of the claim shares: the winner's new rating, counters
\* and snapshots
EloStepCommon(loss) ==
  /\ db'.models[WinnerOf(db'.debate)].elo
       = db.models[WinnerOf(db'.debate)].elo
           + EloGain(db.models[LoserOf(db'.debate)].elo - db.models[WinnerOf(db'.debate)].elo)
  /\ db'.models[LoserOf(db'.debate)].elo = db.models[LoserOf(db'.debate)].elo - loss
  /\ db'.models[WinnerOf(db'.debate)].won = db.models[WinnerOf(db'.debate)].won + 1
  /\ db'.models[LoserOf(db'.debate)].lost = db.models[LoserOf(db'.debate)].lost + 1
  /\ (db'.models[WinnerOf(db'.debate)].elo - db.models[WinnerOf(db'.debate)].elo)
       + (db'.models[LoserOf(db'.debate)].elo - db.models[LoserOf(db'.debate)].elo) \in -1 .. 1
  /\ db'.debate.pro_elo_before = db.models[db'.debate.pro].elo
  /\ db'.debate.con_elo_before = db.models[db'.debate.con].elo
  /\ db'.debate.pro_elo_after = db'.models[db'.debate.pro].elo
  /\ db'.debate.con_elo_after = db'.models[db'.debate.con].elo
  /\ (db.models[db'.debate.pro].elo = 1500 /\ db.models[db'.debate.con].elo = 1500)
       => {db'.debate.pro_elo_after, db'.debate.con_elo_after} = {1516, 1484}

CategorySum(c) == c[1] + c[2] + c[3] + c[4]

\* C23 as stated: once a judgment is persisted, both totals are within 0..100,
\* every persisted category score is within 0..25 and the four of each side
\* sum to that side's total; an answer that breaks any of this leaves no
\* score, winner or judgment entry behind
C23_AsStated ==
  /\ db.debate.pro_score # Null =>
        /\ db.debate.pro_score \in 0 .. 100 /\ db.debate.con_score \in 0 .. 100
        /\ \A c \in {db.debate.pro_cat, db.debate.con_cat} : \A i \in DOMAIN c : c[i] \in 0 .. 25
        /\ db.debate.pro_cat # <<>> => CategorySum(db.debate.pro_cat) = db.debate.pro_score
        /\ db.debate.con_cat # <<>> => CategorySum(db.debate.con_cat) = db.debate.con_score
  /\ (\E e \in Range(db.entries) : e.phase = "judgment") => db.debate.pro_score # Null

\* the wait the adapter sleeps after its n-th failed request
BackoffWait(n) == IF n = 1 THEN 1 ELSE IF n = 2 THEN 2 ELSE 4

\* the outcomes an adapter retries
Retried(c) == {i \in DOMAIN c.outcomes : classify(c.provider, c.outcomes[i]) = "retry"}

C25_AsStated ==
  \A i \in DOMAIN run.outcomes :
    run.outcomes[i] = "content_filter" =>
      /\ i = Len(run.outcomes) /\ Len(run.slept) = i - 1
      /\ run.pc = "done" /\ run.result = "ContentFilterError"
      /\ run.raised = <<run.provider, run.model_name>>

\* the step is a model call of the judge service
ServiceCall == Len(hist'.calls) = Len(hist.calls) + 1

\* the call made in the step
ThisCall == hist'.calls[Len(hist'.calls)]

\* nothing about the debate's scores, transcript or excuses changes in the step
NothingPersisted ==
  /\ db'.debate.pro_score = db.debate.pro_score /\ db'.debate.con_score = db.debate.con_score
  /\ db'.debate.winner = db.debate.winner /\ db'.debate.judge_score = db.debate.judge_score
  /\ db'.entries = db.entries
  /\ db'.debate.excuses = db.debate.excuses
  /\ \A m \in Models : db'.models[m].excused = db.models[m].excused

\* no excuse of model m is recorded in the step
NotExcused(m) ==
  /\ \A i \in DOMAIN db'.debate.excuses : db'.debate.excuses[i].model # m
  /\ db'.models[m].excused = db.models[m].excused

\* the transcript entry is a judgment, not a notice of a substitution
Verdicts(e) == e.phase = "judgment" /\ ~e.note

\* the watchdog is at the same model call of the same operation after the step
SameOperation == <<wd'.pc, wd'.cur, wd'.attempt>> = <<wd.pc, wd.cur, wd.attempt>>

\* C26: a model call is the nudged second one exactly when the call before it
\* was an un-nudged call of the same model for the same judgment or audit
\* whose reply had no JSON (so one model is called at most twice for one
\* operation); a second reply without JSON fails the operation and leaves no
\* score, transcript entry or excuse; a valid second reply is persisted as a
\* valid first reply is, with no excuse
C26_JsonRetry ==
  [][ServiceCall =>
       /\ ThisCall.nudge <=>
             /\ hist.calls # <<>>
             /\ hist.calls[Len(hist.calls)].reply = "no_json"
             /\ ~hist.calls[Len(hist.calls)].nudge
       /\ ThisCall.nudge =>
             /\ hist.calls[Len(hist.calls)].model = ThisCall.model
             /\ hist.calls[Len(hist.calls)].kind = ThisCall.kind
             /\ ~SameOperation
       /\ (~ThisCall.nudge /\ ThisCall.reply = "no_json") => (SameOperation /\ NothingPersisted)
       /\ (ThisCall.nudge /\ ThisCall.reply = "no_json") =>
             (NothingPersisted /\ wd'.pc = "idle")
       /\ (ThisCall.nudge /\ ThisCall.reply = "valid" /\ ThisCall.kind = "judge") =>
             /\ db'.debate.pro_score # Null /\ db'.debate.con_score # Null
             /\ db'.debate.winner # Null
             /\ Cardinality({i \in DOMAIN db'.entries : Verdicts(db'.entries[i])})
                  = Cardinality({i \in DOMAIN db.entries : Verdicts(db.entries[i])}) + 1
             /\ db'.entries[Len(db'.entries)].phase = "judgment"
             /\ NotExcused(ThisCall.model)
             /\ wd'.pc = "audit"
       /\ (ThisCall.nudge /\ ThisCall.reply = "valid" /\ ThisCall.kind = "audit") =>
             /\ db'.debate.status = "completed" /\ db'.debate.judge_score # Null
             /\ db'.entries[Len(db'.entries)].phase = "audit"
             /\ NotExcused(ThisCall.model)
             /\ wd'.pc = "elo"]_vars

C26_Witness ==
  /\ Len(hist.calls) = 3 /\ hist.calls[2].nudge /\ hist.calls[2].reply = "valid"
  /\ hist.calls[1].reply = "no_json" /\ db.debate.pro_score # Null

\* the empty replies among calls
Empties(calls) == {i \in DOMAIN calls : calls[i].reply = "empty"}

\* the step is a reply to a debater call
TurnCall == run.pc = "turn" /\ hist'.calls # hist.calls

\* the reply handled in the step
ThisReply == hist'.calls[Len(hist'.calls)].reply

\* the speeches (not notices) among the transcript entries tr
Speeches(tr) == {i \in DOMAIN tr : ~tr[i].note}

\* C27: within one debater turn at most 3 replies are empty; after the first
\* and the second the same model is called again for the same turn and
\* nothing is written; the third fails the turn with an error and no entry
\* for it; a reply with text ends the retries and adds exactly one entry,
\* the speech of that turn
C27_EmptyResponses ==
  [][TurnCall =>
       /\ Cardinality(Empties(hist'.calls)) <= MAX_EMPTY_RESPONSE_RETRIES + 1
       /\ \A i \in DOMAIN hist'.calls :
            hist'.calls[i].turn = run.turn /\ hist'.calls[i].attempt = run.attempt
       /\ (ThisReply = "empty"
              /\ Cardinality(Empties(hist'.calls)) <= MAX_EMPTY_RESPONSE_RETRIES) =>
             /\ run' = run /\ db' = db /\ sess' = sess
       /\ (ThisReply = "empty"
              /\ Cardinality(Empties(hist'.calls)) = MAX_EMPTY_RESPONSE_RETRIES + 1) =>
             /\ run'.pc = "done" /\ run'.outcome = "error"
             /\ Speeches(db'.entries) = Speeches(db.entries)
             /\ sess'["R"].ins = <<>>
       /\ ThisReply = "text" =>
             /\ Cardinality(Speeches(run'.otr)) = Cardinality(Speeches(run.otr)) + 1
             /\ run'.otr[Len(run'.otr)]
                  = NewEntry(Turns[run.turn].phase, Turns[run.turn].pos, run.cur,
                             run.oseq, FALSE, "R")
             /\ (run'.pc = "turn" => run'.turn = run.turn + 1)]_vars

C27_Witness ==
  /\ Len(hist.calls) = 3 /\ hist.calls[1].reply = "empty" /\ hist.calls[2].reply = "empty"
  /\ hist.calls[3].reply = "text" /\ run.pc = "turn"

\* C28: is_blinded and the id of the Debate row are set when the row is
\* created on the first attempt and never change afterwards, neither in the
\* database nor on the object of any session, whatever restarts,
\* substitutions, judgment, audit or watchdog recovery do
C28_BlindedAndIdFrozen ==
  [][/\ (~db.debate.exists /\ db'.debate.exists) => (run.pc = "idle" /\ run.attempt = 0)
     /\ db.debate.exists =>
          /\ db'.debate.exists
          /\ db'.debate.blinded = db.debate.blinded /\ db'.debate.id = db.debate.id
     /\ \A t \in Tasks :
          (sess'[t].obj.exists /\ db'.debate.exists) =>
            /\ sess'[t].obj.blinded = db'.debate.blinded
            /\ sess'[t].obj.id = db'.debate.id]_vars

C28_Witness ==
  /\ run.attempt > 0 /\ db.debate.exists /\ db.debate.blinded
  /\ \E i \in DOMAIN db.entries : db.entries[i].by = "W" /\ db.entries[i].phase = "audit"

\* the approved user topics with at least 5 votes
Qualified(topics) ==
  {t \in DOMAIN topics : /\ topics[t].source = "user" /\ topics[t].status = "approved"
                         /\ topics[t].vote_count >= 5}

\* the pending seed topics
Backlog(topics) ==
  {t \in DOMAIN topics : topics[t].source = "seed" /\ topics[t].status = "pending"}

\* C29: in hybrid mode select_next_topic returns a qualified user topic of
\* highest vote_count if there is one, else a pending seed topic if there is
\* one, else none; user_only returns no seed topic and backlog_only no user
\* topic (each returns none exactly when it has no candidate); no mode
\* returns a selected, debated or rejected topic
C29_TopicSelection ==
  run.pc = "done" =>
    /\ run.topic # Null =>
          run.topics[run.topic].status \notin {"selected", "debated", "rejected"}
    /\ run.mode = "hybrid" =>
          IF Qualified(run.topics) # {}
            THEN /\ run.topic \in Qualified(run.topics)
                 /\ \A u \in Qualified(run.topics) :
                      run.topics[u].vote_count <= run.topics[run.topic].vote_count
          ELSE IF Backlog(run.topics) # {} THEN run.topic \in Backlog(run.topics)
          ELSE run.topic = Null
    /\ run.mode = "user_only" =>
          IF Qualified(run.topics) # {}
            THEN /\ run.topic \in Qualified(run.topics)
                 /\ \A u \in Qualified(run.topics) :
                      run.topics[u].vote_count <= run.topics[run.topic].vote_count
          ELSE run.topic = Null
    /\ run.mode = "backlog_only" =>
          IF Backlog(run.topics) # {} THEN run.topic \in Backlog(run.topics)
          ELSE run.topic = Null

C29_Witness ==
  /\ run.pc = "done" /\ run.mode = "hybrid" /\ run.topic # Null
  /\ run.topics[run.topic].source = "user" /\ run.topics[run.topic].vote_count = 5
  /\ Backlog(run.topics) # {}
  /\ \E u \in DOMAIN run.topics :
       /\ run.topics[u].source = "user" /\ run.topics[u].vote_count = 7
       /\ run.topics[u].status = "rejected"

\* the judgments the watchdog has written into the transcript tr
WatchdogVerdicts(tr) == {i \in DOMAIN tr : Verdicts(tr[i]) /\ tr[i].by = "W"}

\* the watchdog's step begins a recovery attempt
AttemptBegins == wd'.pc \in {"judge", "audit"} /\ (wd.pc = "idle" \/ wd'.attempt # wd.attempt)

\* C30, the decision of an attempt: the watchdog calls the judge exactly when
\* the refreshed debate lacks pro_score or con_score, and the auditor only
\* when both are set
C30_JudgeIffUnscored ==
  [][AttemptBegins =>
       (wd'.pc = "judge" <=> (db.debate.pro_score = Null \/ db.debate.con_score = Null))]_vars

\* C30 as stated: beyond that decision, a debate whose judgment is already
\* persisted gets no further judgment entry and no change of scores or
\* winner from a step of the watchdog
C30_AsStated ==
  [][(wd' # wd /\ db.debate.pro_score # Null /\ db.debate.con_score # Null) =>
       /\ WatchdogVerdicts(db'.entries) = WatchdogVerdicts(db.entries)
       /\ Len(db'.entries) >= Len(db.entries)
       /\ db'.debate.pro_score = db.debate.pro_score
       /\ db'.debate.con_score = db.debate.con_score
       /\ db'.debate.winner = db.debate.winner]_vars

\* C31 as stated: when run_debate was invoked on a debate that had transcript
\* entries already (a restart attempt) and has reached JUDGING, every phase
\* of the committed transcript and of the orchestrator's own transcript holds
\* exactly its expected number of speaking turns, notices not counted
C31_AsStated ==
  (run.pc = "judge" /\ run.attempt > 0 /\ db.debate.status = "judging") =>
    \A k \in DOMAIN DebatePhases :
      /\ Count(db.entries, DebatePhases[k]) = ExpectedEntries(DebatePhases[k])
      /\ Count(run.otr, DebatePhases[k]) = ExpectedEntries(DebatePhases[k])

\* a debater content-filter substitution that found a replacement
SubstitutionStep ==
  /\ run.pc = "turn" /\ run'.pc = "turn"
  /\ run'.turn = run.turn /\ run'.cur # run.cur

\* a debater's reply was accepted as the entry of the turn
SpeechStep ==
  /\ run.pc = "turn"
  /\ Len(run'.otr) = Len(run.otr) + 1
  /\ ~run'.otr[Len(run'.otr)].note

\* the substitution notice _add_substitution_note writes for the turn in flight
NoticeOfTurn ==
  NewEntry(Turns[run.turn].phase, Turns[run.turn].pos, run'.cur, run.oseq, TRUE, "R")

\* every speech of a role after a notice of that role is by the model the
\* latest such notice names
SpokenByReplacement(tr) ==
  \A i \in DOMAIN tr : \A j \in DOMAIN tr :
    ( /\ i < j /\ tr[i].note /\ ~tr[j].note /\ tr[j].pos = tr[i].pos
      /\ \A k \in (i + 1) .. (j - 1) : ~(tr[k].note /\ tr[k].pos = tr[i].pos) )
      => tr[j].spk = tr[i].spk

RatingTables ==
  { <<1500, 1500, 1500, 1500, 1500, 1500>>,
    <<1500, 1500, 1500, 1500, 1480, 1520>>,
    <<1520, 1480, 1510, 1490, 1530, 1470>> }

\* run_single_debate with no spare model or with two, one call being refused
InitSubstitute ==
  \E n_active \in {NModels - 2, NModels}, elo \in RatingTables :
    /\ db = [InitDb(n_active) EXCEPT
               !.models = [m \in Models |-> [@[m] EXCEPT !.elo = elo[((m - 1) % Len(elo)) + 1]]]]
    /\ sess = [t \in Tasks |-> BlankSession]
    /\ run = InitRun
    /\ wd = InitWd
    /\ mr = InitMr
    /\ faults = 1
    /\ hist = InitHist

SpecSubstitute == InitSubstitute /\ [][R_Begin \/ R_Turn \/ R_Judge \/ R_Audit]_vars

\* the active models outside the excluded set of the call in flight
Candidates == {m \in ActiveModels(sess["R"], db) : m \notin run.excl \cup {run.cur}}

\* the role the call in flight serves
RoleInFlight ==
  IF run.pc = "turn" THEN Turns[run.turn].pos
  ELSE IF run.pc = "judge" THEN "judge" ELSE "auditor"

\* the step handled a content-filter refusal of the model in flight
RefusedStep ==
  /\ run.pc \in {"turn", "judge", "audit"}
  /\ faults' = faults - 1
  /\ run.cur \in hist'.excused["R"] \ hist.excused["R"]
  /\ hist'.nexc = hist.nexc + (IF run'.pc = run.pc /\ run'.attempt = run.attempt THEN 1
                               ELSE IF run.pc = "turn" THEN 1 ELSE 2)

\* what the service call returns for the refusal when the query finds nothing
RefusalUnreplaced ==
  IF run.pc = "turn"
    THEN Local(run_turn_reply(World("R", run), "filter", Null), LAMBDA w :
           [raised |-> w.r.pc = "raise", obj |-> w.s.obj, ins |-> w.s.ins, otr |-> w.r.otr])
  ELSE IF run.pc = "judge"
    THEN Local(judge_debate_reply(World("R", run).s, db, run.js, run.cur, run.excl,
                                  "filter", Null, "R"), LAMBDA j :
           [raised |-> j.res = "RuntimeError_judge", obj |-> j.s.obj, ins |-> j.s.ins,
            otr |-> run.otr])
  ELSE Local(audit_judge_reply(World("R", run).s, db, run.js, run.cur, run.excl,
                               "filter", Null, "R"), LAMBDA j :
           [raised |-> j.res = "RuntimeError_auditor", obj |-> j.s.obj, ins |-> j.s.ins,
            otr |-> run.otr])

\* C33: a substitution that finds a replacement takes a model of maximal
\* elo_rating among the active models outside the excluded set; when there is
\* none the operation raises, the role pointer keeps its value and no
\* substitution notice is appended
C33_ReplacementChoice ==
  [][ RefusedStep =>
        IF Candidates # {}
          THEN /\ run'.pc = run.pc /\ run'.attempt = run.attempt
               /\ run'.cur \in Candidates
               /\ \A n \in Candidates :
                    ViewModel(sess["R"], db, n).elo <= ViewModel(sess["R"], db, run'.cur).elo
               /\ sess'["R"].obj[RoleInFlight] = run'.cur
          ELSE /\ RefusalUnreplaced.raised
               /\ RefusalUnreplaced.obj[RoleInFlight] = sess["R"].obj[RoleInFlight]
               /\ RefusalUnreplaced.ins = sess["R"].ins
               /\ RefusalUnreplaced.otr = run.otr
               /\ \/ run'.pc = "done" /\ run'.outcome \in {"error", "no_models"}
                  \/ run'.attempt = run.attempt + 1 ]_vars

\* a replacement was taken that is rated above another candidate
C33_Witness ==
  /\ hist.sub # NoSub /\ hist.sub.by = "R"
  /\ run.pc \in {"turn", "judge", "audit"} /\ run.cur = hist.sub.repl
  /\ \E n \in ActiveModels(sess["R"], db) \ (hist.sub.roles \cup hist.sub.before \cup {run.cur}) :
       ViewModel(sess["R"], db, n).elo < ViewModel(sess["R"], db, run.cur).elo

\* ------------------------------------------------------- one watchdog sweep
\* the watchdog alone on a debate left in JUDGING, its calls failing in any
\* way, some auditors never answering in time
SpecSweep ==
  /\ \E slow \in SlowChoices, is_blinded \in BOOLEAN,
        q \in select_debate_models(BlankSession, InitDb(NModels), {},
                                   {Numbering(Eligible(BlankSession, InitDb(NModels), {}))}) :
       \E w \in {LeftBehind(AfterReplies(
                    create_debate([s |-> BlankSession, d |-> InitDb(NModels), r |-> InitRun],
                                  q, is_blinded), Len(Turns)))} :
         /\ db = w.d
         /\ sess = [t \in Tasks |-> IF t = "R" THEN [w.s EXCEPT !.wrote = {}] ELSE BlankSession]
         /\ run = w.r
         /\ wd = InitWd
         /\ mr = InitMr
         /\ faults = MaxFaults
         /\ hist = [InitHist EXCEPT !.slow = slow]
  /\ [][W_Start \/ W_Judge \/ W_Audit \/ W_Finish \/ Tick]_vars

\* the watchdog's session holds no uncommitted change
NothingPending(s) ==
  s.dirty = {} /\ s.mdirty = {} /\ s.ins = <<>> /\ s.del = {} /\ s.topic = "none"

\* what _recover_stuck_debate does when the call in flight fails with `res`
RecoveryOf(res) ==
  AfterRecovery(World("W", wd),
                [s |-> World("W", wd).s, js |-> wd.js, cur |-> wd.cur, excl |-> wd.excl,
                 res |-> res],
                IF wd.pc = "judge" THEN "judge" ELSE "audit", TRUE, Null)

\* C34: a sweep makes at most 2 recovery attempts; an error other than a
\* timeout ends the attempts of the sweep; a failed attempt's uncommitted
\* changes are rolled back and the debate stays in JUDGING
C34_SweepAttempts ==
  [][ /\ wd'.attempt < MAX_WATCHDOG_RECOVERY_ATTEMPTS
      /\ wd'.attempt # wd.attempt => wd'.attempt = IF wd'.pc = "idle" THEN 0 ELSE wd.attempt + 1
      /\ wd.pc \in {"judge", "audit"} =>
           \A res \in {"ValueError", "RuntimeError_judge", "RuntimeError_auditor"} :
             /\ RecoveryOf(res).r = InitWd
             /\ RecoveryOf(res).d = db
             /\ NothingPending(RecoveryOf(res).s)
      /\ (wd.pc \in {"judge", "audit"} /\ wd'.pc = "idle") =>
           /\ db' = db
           /\ NothingPending(sess'["W"])
           /\ db'.debate.status = "judging"
      /\ (wd.pc \in {"judge", "audit"} /\ wd'.attempt = wd.attempt + 1) =>
           /\ db' = [db EXCEPT !.debate.auditor = db'.debate.auditor]
           /\ sess'["W"].ins = <<>> /\ sess'["W"].mdirty = {} /\ sess'["W"].dirty = {}
           /\ db'.debate.status = "judging" ]_vars

\* a sweep is over after a failed call, the judgment it committed in place,
\* and the debate is still in JUDGING
C34_Witness ==
  /\ wd.pc = "idle" /\ faults < MaxFaults
  /\ db.debate.status = "judging" /\ db.debate.pro_score # Null
  /\ NothingPending(sess["W"])

\* the watchdog went on to its next recovery attempt
NextAttemptStep == wd.pc \in {"judge", "audit"} /\ wd'.attempt = wd.attempt + 1

C35_ReplacementAuditor ==
  [][ NextAttemptStep =>
        /\ db'.debate.judge = db.debate.judge
        /\ db'.debate.pro = db.debate.pro /\ db'.debate.con = db.debate.con
        /\ db.models[db'.debate.auditor].active
        /\ db'.debate.auditor \notin {db.debate.judge, db.debate.pro, db.debate.con}
        /\ db'.debate.auditor \notin wd.xaud \cup {db.debate.auditor} ]_vars

\* the TimeoutError handler of run_single_debate ran on this step: the judge
\* or auditor call in flight timed out and the handler recorded its excuse
TimeoutHandled ==
  /\ run.pc \in {"judge", "audit"}
  /\ faults' = faults - 1
  /\ hist'.nexc = hist.nexc + 1
  /\ Len(run'.excuses) = Len(run.excuses) + 1
  /\ run'.excuses[Len(run'.excuses)].by = "scheduler"

\* C36 as stated: the model the TimeoutError handler excuses is the model
\* whose call timed out, with the role it held, also when that model had
\* replaced the selected judge or auditor during the debate
C36_AsStated ==
  [][ TimeoutHandled =>
        /\ run'.excuses[Len(run'.excuses)].model = run.cur
        /\ run'.excuses[Len(run'.excuses)].role = (IF run.pc = "judge" THEN "judge" ELSE "auditor")
        /\ run'.excused = run.excused \cup {run.cur}
        /\ ReadModel(sess'["R"], db', run.cur).excused > ReadModel(sess["R"], db, run.cur).excused
    ]_vars

\* the same for a judge or auditor that is still the selected one
C36_SelectedModelExcused ==
  [][ (TimeoutHandled /\ run.cur \in {run.sel.judge, run.sel.auditor}) =>
        /\ run'.excuses[Len(run'.excuses)].model = run.cur
        /\ run'.excuses[Len(run'.excuses)].role = (IF run.pc = "judge" THEN "judge" ELSE "auditor")
        /\ run'.excused = run.excused \cup {run.cur} ]_vars

\* ------------------------------------------------- the debaters' conversation
\* what a debater may write
Texts == {"a", "b"}

\* PHASE_NAMES.get(entry.phase, entry.phase.value)
PhaseName(phase) ==
  IF phase = "opening" THEN "Opening Statement"
  ELSE IF phase = "rebuttal" THEN "Rebuttal"
  ELSE IF phase = "cross_examination" THEN "Cross-Examination"
  ELSE IF phase = "closing" THEN "Closing Argument"
  ELSE phase

\* a transcript entry with its content
WithContent(e, text) ==
  [phase |-> e.phase, pos |-> e.pos, spk |-> e.spk, seq |-> e.seq, note |-> e.note,
   content |-> text]

\* a conversation in which the opening turn is given the transcript too
build_messages_seeing_openings(transcript, current_phase) ==
  IF transcript = <<>>
    THEN << [role |-> "user", content |-> <<"Please provide your response.">>] >>
    ELSE [k \in 1 .. Len(transcript) |->
            [role |-> "user",
             content |-> << IF transcript[k].pos = "pro" THEN "[PRO]"
                            ELSE IF transcript[k].pos = "con" THEN "[CON]" ELSE "[SPEAKER]",
                            PhaseName(transcript[k].phase), transcript[k].content >>]]

\* DebateOrchestrator._build_messages_from_transcript; the formatted content
\* "{speaker_label} ({phase_label}):\n{entry.content}" is kept as its three parts
build_messages_from_transcript(transcript, current_phase) ==
  IF current_phase = "opening"
    THEN << [role |-> "user",
             content |-> <<"The debate is beginning. Please provide your opening statement.">>] >>
  ELSE IF transcript = <<>>
    THEN << [role |-> "user", content |-> <<"Please provide your response.">>] >>
  ELSE [k \in 1 .. Len(transcript) |->
          [role |-> "user",
           content |-> << IF transcript[k].pos = "pro" THEN "[PRO]"
                          ELSE IF transcript[k].pos = "con" THEN "[CON]" ELSE "[SPEAKER]",
                          PhaseName(transcript[k].phase), transcript[k].content >>]]

\* the transcript _load_debate hands to a run: empty, or the judgment entry of
\* the attempt before, still in the session's collection after its deletion
LoadedTranscripts ==
  { <<>>, << WithContent(NewEntry("judgment", "judge", 3, 1, FALSE, "R"), "verdict") >> }

\* one call of _run_turn's loop in two runs of the same debate that differ in
\* nothing but what Pro writes in its opening: the conversation is built, the
\* model answers or is refused, the entry or the notice is appended
ConversationTurn ==
  /\ run.turn <= Len(Turns)
  /\ \E out \in {"ok", "filter"}, text \in Texts, other \in Texts :
       /\ Fault(out)
       /\ run.turn # 1 => other = text
       /\ LocalIn(Turns[run.turn], LAMBDA t :
          LocalIn([left |-> build_messages_from_transcript(run.left, t.phase),
                   right |-> build_messages_from_transcript(run.right, t.phase)], LAMBDA asked :
          LocalIn(NewEntry(t.phase, t.pos, IF out = "filter" THEN 5 ELSE run.cur[t.pos],
                           run.oseq, out = "filter", "R"), LAMBDA e :
            run' = [run EXCEPT
                      !.asked = asked, !.called = run.turn,
                      !.left = Append(@, WithContent(e, IF out = "filter" THEN "notice" ELSE text)),
                      !.right = Append(@, WithContent(e, IF out = "filter" THEN "notice" ELSE other)),
                      !.oseq = @ + 1,
                      !.cur = IF out = "filter" THEN [@ EXCEPT ![t.pos] = 5] ELSE @,
                      !.turn = IF out = "filter" THEN @ ELSE @ + 1])))
  /\ UNCHANGED <<db, sess, wd, mr, hist>>

SpecConversation ==
  /\ \E loaded \in LoadedTranscripts :
       run = [turn |-> 1, called |-> 0, left |-> loaded, right |-> loaded,
              oseq |-> IF loaded = <<>> THEN 0 ELSE 2,
              cur |-> [pro |-> 1, con |-> 2],
              asked |-> [left |-> <<>>, right |-> <<>>]]
  /\ db = InitDb(NModels) /\ sess = [t \in Tasks |-> BlankSession]
  /\ wd = InitWd /\ mr = InitMr /\ faults = 1 /\ hist = InitHist
  /\ [][ConversationTurn]_vars

\* the entries of the debate among those of a transcript, and the messages
\* made of them
OfDebate(transcript) == SelectSeq(transcript, LAMBDA e : e.phase # "judgment")
AboutDebate(messages) == SelectSeq(messages, LAMBDA m : m.content[2] # "judgment")

\* the messages give the entries of the transcript, in sequence order
GivesAll(messages, transcript) ==
  /\ Len(AboutDebate(messages)) = Len(OfDebate(transcript))
  /\ \A k \in DOMAIN OfDebate(transcript) :
       /\ AboutDebate(messages)[k].content[3] = OfDebate(transcript)[k].content
       /\ AboutDebate(messages)[k].content[2] = PhaseName(OfDebate(transcript)[k].phase)
       /\ k > 1 => OfDebate(transcript)[k - 1].seq < OfDebate(transcript)[k].seq

\* C37: the conversation of an opening call is the same in two runs that
\* differ only in Pro's opening, Con's opening call included; the conversation
\* of every other call holds all prior entries of the debate in sequence order
C37_Conversation ==
  [][ IF Turns[run.turn].phase = "opening"
        THEN run'.asked.left = run'.asked.right
        ELSE /\ GivesAll(run'.asked.left, run.left)
             /\ GivesAll(run'.asked.right, run.right) ]_vars

\* Con's opening was called in two runs whose Pro openings differ, and a later
\* call was given a transcript with a substitution notice in it
C37_Witness ==
  /\ run.called > LastTurn("opening")
  /\ run.left[Len(run.left)].phase # "opening"
  /\ \E k \in DOMAIN run.left :
       /\ run.left[k].phase = "opening" /\ run.left[k].pos = "pro" /\ ~run.left[k].note
       /\ run.left[k].content # run.right[k].content
  /\ \E k \in DOMAIN run.left : run.left[k].note /\ k < Len(run.asked.left)
  /\ Len(run.asked.left) = Len(run.left) - 1

\* by how much run_single_debate's step raised the model's times_excused
ExcusedMore(m) ==
  ReadModel(sess'["R"], db', m).excused - ReadModel(sess["R"], db, m).excused

\* C38 as stated: handling one failed call raises times_excused by exactly 1,
\* for the model that was removed from its role and for no other, also when
\* the service and the scheduler's handler both react to the failure
C38_AsStated ==
  [][ run.pc \in {"turn", "judge", "audit"} =>
        \A m \in Models :
          /\ ExcusedMore(m) <= 1
          /\ ExcusedMore(m) = 1 => m = run.cur ]_vars

\* what holds: a substitution inside a service raises times_excused of the
\* refused model by 1 and of no other model
C38_SubstitutionCountsOnce ==
  [][ (RefusedStep /\ Candidates # {}) =>
        \A m \in Models : ExcusedMore(m) = IF m = run.cur THEN 1 ELSE 0 ]_vars

\* --------------------------------------- two invocations of run_single_debate
\* a scheduled slot (_run_scheduled_debate) and a manual trigger
\* (trigger_debate), each with a session and a transaction of its own; the
\* steps are the stretches between the awaits at which the other one can run
Invocations == {"slot", "manual"}
TopicIds == 1 .. NTopics

\* the invocation holds the row lock of topic t: it flushed the UPDATE of the
\* topic's status and has not committed yet
HoldsTopic(i, t) == run.inv[i].pc = "created" /\ run.inv[i].topic = t

\* topic = await select_next_topic(db): a PENDING topic as committed, or None
Two_SelectTopic ==
  \E i \in Invocations :
    /\ run.inv[i].pc = "idle"
    /\ IF \E t \in TopicIds : run.topics[t] = "pending"
         THEN \E t \in TopicIds :
                /\ run.topics[t] = "pending"
                /\ run' = [run EXCEPT !.inv[i] = [pc |-> "selected", topic |-> t]]
         ELSE run' = [run EXCEPT !.inv[i] = [pc |-> "done", topic |-> Null]]
    /\ UNCHANGED <<db, sess, wd, mr, faults, hist>>

\* db.add(debate); topic.status = SELECTED; await db.flush() (scheduler.py 311-339)
Two_CreateDebate ==
  \E i \in Invocations :
    /\ run.inv[i].pc = "selected"
    /\ \A j \in Invocations \ {i} : ~HoldsTopic(j, run.inv[i].topic)
    /\ run' = [run EXCEPT !.inv[i].pc = "created"]
    /\ UNCHANGED <<db, sess, wd, mr, faults, hist>>

\* the first commit of run_debate (orchestrator.py 219-222)
Two_CommitStart ==
  \E i \in Invocations :
    /\ run.inv[i].pc = "created"
    /\ run' = [run EXCEPT !.inv[i].pc = "running",
                          !.topics[run.inv[i].topic] = "selected",
                          !.debates[i] = [exists |-> TRUE, topic |-> run.inv[i].topic,
                                          status |-> "in_progress"]]
    /\ UNCHANGED <<db, sess, wd, mr, faults, hist>>

\* the debate completes: status COMPLETED, topic.status = DEBATED, commit
Two_Finish ==
  \E i \in Invocations :
    /\ run.inv[i].pc = "running"
    /\ \A j \in Invocations \ {i} : ~HoldsTopic(j, run.inv[i].topic)
    /\ run' = [run EXCEPT !.inv[i].pc = "done",
                          !.topics[run.inv[i].topic] = "debated",
                          !.debates[i].status = "completed"]
    /\ UNCHANGED <<db, sess, wd, mr, faults, hist>>

\* the debate fails: the exception leaves run_single_debate, the caller rolls back
Two_Fail ==
  \E i \in Invocations :
    /\ run.inv[i].pc = "running"
    /\ faults > 0 /\ faults' = faults - 1
    /\ run' = [run EXCEPT !.inv[i].pc = "done"]
    /\ UNCHANGED <<db, sess, wd, mr, hist>>

SpecTwoRuns ==
  /\ run = [topics |-> [t \in TopicIds |-> "pending"],
            debates |-> [i \in Invocations |-> [exists |-> FALSE, topic |-> Null,
                                                status |-> "none"]],
            inv |-> [i \in Invocations |-> [pc |-> "idle", topic |-> Null]]]
  /\ db = InitDb(NModels) /\ sess = [t \in Tasks |-> BlankSession]
  /\ wd = InitWd /\ mr = InitMr /\ faults = 1 /\ hist = InitHist
  /\ [][Two_SelectTopic \/ Two_CreateDebate \/ Two_CommitStart \/ Two_Finish \/ Two_Fail]_vars

\* the debates on topic t whose status is, or is not, COMPLETED
DebatesOn(t, completed) ==
  {i \in Invocations : /\ run.debates[i].exists /\ run.debates[i].topic = t
                       /\ (run.debates[i].status = "completed") = completed}

\* C39 as stated: two overlapping invocations never run a debate on the same
\* topic: a topic is referenced by at most one debate that is not completed
\* and is marked DEBATED by at most one debate
C39_AsStated ==
  \A t \in TopicIds :
    /\ Cardinality(DebatesOn(t, FALSE)) <= 1
    /\ Cardinality(DebatesOn(t, TRUE)) <= 1

\* ------------------------------------------- the loops of run_single_debate
\* The control flow of one invocation with nothing but what its loops depend
\* on: the attempt number, the excused and excluded sets, the turn, the
\* empty-response count.  Every provider call may answer, answer empty, be
\* refused, time out or fail, any number of times.
LoopStart ==
  [ pc |-> "select", attempt |-> 0, excused |-> {}, sel |-> NoRel, roles |-> NoRel,
    turn |-> 0, empty |-> 0, cur |-> Null, excl |-> {}, oexc |-> {},
    outcome |-> "none", last |-> "none" ]

LoopDone(r, outcome) ==
  [r EXCEPT !.pc = "done", !.outcome = outcome, !.cur = Null, !.excl = {}, !.turn = 0,
            !.empty = 0]

\* the start of a _run_turn call for turn i
loop_turn(r, i) ==
  [r EXCEPT !.pc = "turn", !.turn = i, !.empty = 0, !.cur = r.roles[Turns[i].pos],
            !.excl = RolesOf(r.roles) \cup r.oexc]

\* the start of judge_debate / audit_judge
loop_service(r, role) ==
  [r EXCEPT !.pc = role, !.turn = 0, !.empty = 0, !.cur = r.roles[role],
            !.excl = RolesOf(r.roles) \ {r.roles[role]}]

\* the handlers that go on without checking the attempt number
handled_restart_uncapped(r, kind) ==
  [r EXCEPT !.pc = "select", !.attempt = @ + 1, !.last = kind,
            !.excused = @ \cup {HandlerExcuses(r.sel, kind, r.cur).model}]

\* except RuntimeError / except TimeoutError of run_single_debate: excuse,
\* then raise on the last attempt or continue
handled_restart(r, kind) ==
  IF r.attempt >= MAX_CONTENT_FILTER_RESTARTS
    THEN LoopDone([r EXCEPT !.last = kind,
                            !.excused = @ \cup {HandlerExcuses(r.sel, kind, r.cur).model}],
                  "error")
    ELSE [r EXCEPT !.pc = "select", !.attempt = @ + 1, !.last = kind,
                   !.excused = @ \cup {HandlerExcuses(r.sel, kind, r.cur).model}]

\* the head of the attempt loop: select_debate_models, then run_debate, which
\* runs the phases or (attempt > 0) finds them in the loaded transcript
Loop_Select ==
  /\ run.pc = "select"
  /\ LocalIn(select_debate_models(BlankSession, db, run.excused,
                                  {Numbering(Eligible(BlankSession, db, run.excused))}), LAMBDA qs :
       IF qs = {} THEN run' = LoopDone(run, "no_models")
       ELSE \E q \in qs, skipped \in (IF run.attempt = 0 THEN {FALSE} ELSE BOOLEAN) :
              LocalIn([run EXCEPT !.sel = q, !.roles = q, !.oexc = {}], LAMBDA r :
                run' = IF skipped THEN loop_service(r, "judge") ELSE loop_turn(r, 1)))
  /\ UNCHANGED <<db, sess, wd, mr, faults, hist>>

\* one pass of the while True of _run_turn
Loop_Turn ==
  /\ run.pc = "turn"
  /\ \E out \in {"ok", "empty", "filter", "fail"} :
       \E repl \in (IF out = "filter"
                      THEN find_replacement_model(BlankSession, db, run.excl \cup {run.cur})
                      ELSE {Null}) :
         run' = IF out = "ok"
                  THEN (IF run.turn < Len(Turns) THEN loop_turn(run, run.turn + 1)
                        ELSE loop_service(run, "judge"))
                ELSE IF out = "empty"
                  THEN (IF run.empty + 1 <= MAX_EMPTY_RESPONSE_RETRIES
                          THEN [run EXCEPT !.empty = @ + 1]
                          ELSE LoopDone(run, "error"))
                ELSE IF out = "fail" \/ repl = Null THEN LoopDone(run, "error")
                ELSE [run EXCEPT !.roles[Turns[run.turn].pos] = repl, !.cur = repl,
                                 !.oexc = @ \cup {run.cur},
                                 !.excl = @ \cup {run.cur, repl}]
  /\ UNCHANGED <<db, sess, wd, mr, faults, hist>>

\* one pass of the while True of judge_debate or audit_judge, and what
\* run_single_debate does with what it raises
Loop_Service ==
  /\ run.pc \in {"judge", "auditor"}
  /\ \E out \in {"ok", "filter", "timeout", "bad"} :
       \E repl \in (IF out = "filter"
                      THEN find_replacement_model(BlankSession, db, run.excl \cup {run.cur})
                      ELSE {Null}) :
         run' = IF out = "ok"
                  THEN (IF run.pc = "judge" THEN loop_service(run, "auditor")
                        ELSE LoopDone(run, "completed"))
                ELSE IF out = "bad" THEN LoopDone(run, "error")
                ELSE IF out = "timeout" THEN handled_restart(run, "TimeoutError")
                ELSE IF repl = Null
                  THEN handled_restart(run, IF run.pc = "judge" THEN "RuntimeError_judge"
                                            ELSE "RuntimeError_auditor")
                ELSE [run EXCEPT !.roles[run.pc] = repl, !.cur = repl,
                                 !.excl = @ \cup {run.cur, repl}]
  /\ UNCHANGED <<db, sess, wd, mr, faults, hist>>

\* every provider call returns, raises or times out
SpecLoops ==
  /\ run = LoopStart
  /\ db = InitDb(NModels) /\ sess = [t \in Tasks |-> BlankSession]
  /\ wd = InitWd /\ mr = InitMr /\ faults = 0 /\ hist = InitHist
  /\ [][Loop_Select \/ Loop_Turn \/ Loop_Service]_vars
  /\ WF_vars(Loop_Select \/ Loop_Turn \/ Loop_Service)

\* C40: run_single_debate terminates; it makes at most 4 attempts, each
\* restart follows a handled judge/auditor RuntimeError or TimeoutError, each
\* substitution strictly enlarges the excluded set, and the empty-response
\* retries of a turn stay within their bound
C40_Terminates ==
  /\ <>(run.pc = "done")
  /\ [](run.attempt <= MAX_CONTENT_FILTER_RESTARTS /\ run.empty <= MAX_EMPTY_RESPONSE_RETRIES)
  /\ [][ /\ run'.attempt # run.attempt =>
              /\ run'.attempt = run.attempt + 1
              /\ run.pc \in {"judge", "auditor"}
              /\ run'.last \in {"RuntimeError_judge", "RuntimeError_auditor", "TimeoutError"}
         /\ (run'.pc = run.pc /\ run'.turn = run.turn /\ run'.cur # run.cur) =>
              /\ run.excl \subseteq run'.excl /\ run'.excl # run.excl
              /\ run'.cur \notin run.excl \cup {run.cur}
         /\ (run'.pc = run.pc /\ run'.turn = run.turn /\ run'.cur = run.cur) =>
              run'.empty = run.empty + 1 ]_vars

\* the fourth attempt failed too and the invocation gave up
C40_Witness ==
  /\ run.pc = "done" /\ run.outcome = "error"
  /\ run.attempt = MAX_CONTENT_FILTER_RESTARTS
  /\ run.last = "TimeoutError"
  /\ Cardinality(run.excused) = MAX_CONTENT_FILTER_RESTARTS + 1

====
